---- MODULE Spec2Model ----
(***************************************************************************)
(* A model of the simulation core of the Tetris engine: the board, the     *)
(* 7-bag, collision and SRS rotation, the fixed-timestep update            *)
(* (updateGame) with hold, rotation, movement, gravity, lock delay, lock   *)
(* and spawn, and the chaos event manager with the host's deferred         *)
(* callbacks.                                                              *)
(*                                                                         *)
(* Units.  Times are in ms.  Fractions of the source are kept exact as     *)
(* scaled integers: the gravity accumulator is in micro-cells (1 cell =    *)
(* 1000000), gravity speeds in milli-cells per second, heat in millionths. *)
(***************************************************************************)
EXTENDS Integers, Sequences, FiniteSets, TLC

\* ------------------------------------------------------------------------
\* Configuration (GameConfig) and bounds
\* ------------------------------------------------------------------------

\* config.boardWidth / config.boardHeight: the board of the model is small
BoardWidth == 4
BoardHeight == 4
\* createGameState always passes bufferRows: 4
BufferRows == 4
\* config.previewCount
PreviewCount == 3
\* config.linesPerLevel, config.maxLevel
LinesPerLevel == 1
MaxLevel == 3
\* config.lockDelay (ms) and config.lockDelayResets
LockDelay == 400
LockDelayResets == 2
\* DEFAULT_GAME_CONFIG.lockDelay, the default parameter of resetLockDelay
DefaultLockDelay == 500
\* config.softDropMultiplier
SoftDropMultiplier == 20
\* the deltaMs every tick is called with, and the number of ticks explored
DeltaMs == 250
MaxTicks == 2

Null == [null |-> TRUE]

P(px, py) == [x |-> px, y |-> py]

Min(a, b) == IF a < b THEN a ELSE b
Max(a, b) == IF a > b THEN a ELSE b

\* ------------------------------------------------------------------------
\* Shape catalog (tetromino.ts)
\* ------------------------------------------------------------------------

TetrominoTypes == {"I", "O", "T", "S", "Z", "J", "L"}

\* TETROMINO_SHAPES[type][rotation], rotation r at index r + 1
TETROMINO_SHAPES ==
  [I |-> << <<P(-1,0), P(0,0), P(1,0), P(2,0)>>,
            <<P(1,-1), P(1,0), P(1,1), P(1,2)>>,
            <<P(-1,1), P(0,1), P(1,1), P(2,1)>>,
            <<P(0,-1), P(0,0), P(0,1), P(0,2)>> >>,
   O |-> << <<P(0,0), P(1,0), P(0,1), P(1,1)>>,
            <<P(0,0), P(1,0), P(0,1), P(1,1)>>,
            <<P(0,0), P(1,0), P(0,1), P(1,1)>>,
            <<P(0,0), P(1,0), P(0,1), P(1,1)>> >>,
   T |-> << <<P(-1,0), P(0,0), P(1,0), P(0,-1)>>,
            <<P(0,-1), P(0,0), P(0,1), P(1,0)>>,
            <<P(-1,0), P(0,0), P(1,0), P(0,1)>>,
            <<P(0,-1), P(0,0), P(0,1), P(-1,0)>> >>,
   S |-> << <<P(0,0), P(1,0), P(-1,1), P(0,1)>>,
            <<P(0,-1), P(0,0), P(1,0), P(1,1)>>,
            <<P(0,0), P(1,0), P(-1,1), P(0,1)>>,
            <<P(-1,-1), P(-1,0), P(0,0), P(0,1)>> >>,
   Z |-> << <<P(-1,0), P(0,0), P(0,1), P(1,1)>>,
            <<P(1,-1), P(0,0), P(1,0), P(0,1)>>,
            <<P(-1,0), P(0,0), P(0,1), P(1,1)>>,
            <<P(0,-1), P(-1,0), P(0,0), P(-1,1)>> >>,
   J |-> << <<P(-1,-1), P(-1,0), P(0,0), P(1,0)>>,
            <<P(0,-1), P(1,-1), P(0,0), P(0,1)>>,
            <<P(-1,0), P(0,0), P(1,0), P(1,1)>>,
            <<P(0,-1), P(0,0), P(-1,1), P(0,1)>> >>,
   L |-> << <<P(1,-1), P(-1,0), P(0,0), P(1,0)>>,
            <<P(0,-1), P(0,0), P(0,1), P(1,1)>>,
            <<P(-1,0), P(0,0), P(1,0), P(-1,1)>>,
            <<P(-1,-1), P(0,-1), P(0,0), P(0,1)>> >> ]

\* the kick lists, keyed by <<from, to>> (getWallKickKey builds "from->to")
getWallKickKey(from, to) == <<from, to>>

WALL_KICKS_JLSTZ ==
  ( <<0,1>> :> <<P(0,0), P(-1,0), P(-1,-1), P(0,2), P(-1,2)>> ) @@
  ( <<1,0>> :> <<P(0,0), P(1,0), P(1,1), P(0,-2), P(1,-2)>> ) @@
  ( <<1,2>> :> <<P(0,0), P(1,0), P(1,1), P(0,-2), P(1,-2)>> ) @@
  ( <<2,1>> :> <<P(0,0), P(-1,0), P(-1,-1), P(0,2), P(-1,2)>> ) @@
  ( <<2,3>> :> <<P(0,0), P(1,0), P(1,-1), P(0,2), P(1,2)>> ) @@
  ( <<3,2>> :> <<P(0,0), P(-1,0), P(-1,1), P(0,-2), P(-1,-2)>> ) @@
  ( <<3,0>> :> <<P(0,0), P(-1,0), P(-1,1), P(0,-2), P(-1,-2)>> ) @@
  ( <<0,3>> :> <<P(0,0), P(1,0), P(1,-1), P(0,2), P(1,2)>> )

WALL_KICKS_I ==
  ( <<0,1>> :> <<P(0,0), P(-2,0), P(1,0), P(-2,1), P(1,-2)>> ) @@
  ( <<1,0>> :> <<P(0,0), P(2,0), P(-1,0), P(2,-1), P(-1,2)>> ) @@
  ( <<1,2>> :> <<P(0,0), P(-1,0), P(2,0), P(-1,-2), P(2,1)>> ) @@
  ( <<2,1>> :> <<P(0,0), P(1,0), P(-2,0), P(1,2), P(-2,-1)>> ) @@
  ( <<2,3>> :> <<P(0,0), P(2,0), P(-1,0), P(2,-1), P(-1,2)>> ) @@
  ( <<3,2>> :> <<P(0,0), P(-2,0), P(1,0), P(-2,1), P(1,-2)>> ) @@
  ( <<3,0>> :> <<P(0,0), P(1,0), P(-2,0), P(1,2), P(-2,-1)>> ) @@
  ( <<0,3>> :> <<P(0,0), P(-1,0), P(2,0), P(-1,-2), P(2,1)>> )

WALL_KICKS_O ==
  ( <<0,1>> :> <<P(0,0)>> ) @@ ( <<1,0>> :> <<P(0,0)>> ) @@
  ( <<1,2>> :> <<P(0,0)>> ) @@ ( <<2,1>> :> <<P(0,0)>> ) @@
  ( <<2,3>> :> <<P(0,0)>> ) @@ ( <<3,2>> :> <<P(0,0)>> ) @@
  ( <<3,0>> :> <<P(0,0)>> ) @@ ( <<0,3>> :> <<P(0,0)>> )

getWallKicks(type) ==
  IF type = "I" THEN WALL_KICKS_I
  ELSE IF type = "O" THEN WALL_KICKS_O
  ELSE WALL_KICKS_JLSTZ

\* the absolute cells of a piece
blocksAt(shape, position) ==
  [i \in 1..Len(shape) |-> P(position.x + shape[i].x, position.y + shape[i].y)]

getPieceBlocks(piece) ==
  blocksAt(TETROMINO_SHAPES[piece.type][piece.rotation + 1], piece.position)

\* ------------------------------------------------------------------------
\* Board (board.ts).  A board is the cell map: a function from the keys
\* <<x, y>> of the occupied cells to the cell's "special" tag ("none" or
\* "garbage").  The cell's piece-type tag and lock timestamp are display
\* data that no operation reads; they are not kept.
\* ------------------------------------------------------------------------

cellKey(x, y) == <<x, y>>

TotalHeight == BoardHeight + BufferRows

createBoard == << >>

isValidPosition(b, x, y) ==
  x >= 0 /\ x < BoardWidth /\ y >= 0 /\ y < TotalHeight

isCellOccupied(b, x, y) == cellKey(x, y) \in DOMAIN b

getFilledRows(b) ==
  { y \in 0..(TotalHeight - 1) :
      \A x \in 0..(BoardWidth - 1) : isCellOccupied(b, x, y) }

\* clearRows with writeY lowered by every cleared row, not only those below
clearRows_AllRows(b, rows) ==
  IF rows = {} THEN b
  ELSE LET keep == { k \in DOMAIN b : k[2] \notin rows /\ k[1] >= 0
                                       /\ k[1] < BoardWidth /\ k[2] >= 0
                                       /\ k[2] < TotalHeight }
           down(k) == cellKey(k[1], k[2] - Cardinality(rows))
       IN  [ n \in { down(k) : k \in keep } |->
               b[CHOOSE k \in keep : down(k) = n] ]

\* readY not cleared is written to writeY = readY - (cleared rows below it)
clearRows(b, rows) ==
  IF rows = {} THEN b
  ELSE LET keep == { k \in DOMAIN b : k[2] \notin rows /\ k[1] >= 0
                                       /\ k[1] < BoardWidth /\ k[2] >= 0
                                       /\ k[2] < TotalHeight }
           down(k) == cellKey(k[1], k[2] - Cardinality({ r \in rows : r < k[2] }))
       IN  [ n \in { down(k) : k \in keep } |->
               b[CHOOSE k \in keep : down(k) = n] ]

\* insertGarbageRows: the cells move up by count, those that leave the board
\* are dropped, and count rows are filled but for the column gapColumn
insertGarbageRows(b, count, gapColumn) ==
  LET kept == { k \in DOMAIN b : k[2] + count < TotalHeight }
      garbage == { k \in (0..(BoardWidth - 1)) \X (0..(count - 1)) :
                     k[1] # gapColumn }
  IN  [ k \in { cellKey(q[1], q[2] + count) : q \in kept } \cup garbage |->
          IF k \in garbage THEN "garbage" ELSE b[cellKey(k[1], k[2] - count)] ]

setCell(b, x, y, cell) ==
  [ k \in (DOMAIN b) \cup {cellKey(x, y)} |->
      IF k = cellKey(x, y) THEN cell ELSE b[k] ]

\* positions: a sequence of cells
lockPiece(b, positions) ==
  LET new == { cellKey(positions[i].x, positions[i].y) : i \in 1..Len(positions) }
  IN  [ k \in (DOMAIN b) \cup new |-> IF k \in new THEN "none" ELSE b[k] ]

getHighestOccupiedRow(b) ==
  IF DOMAIN b = {} THEN -1
  ELSE CHOOSE y \in { k[2] : k \in DOMAIN b } :
         \A k \in DOMAIN b : k[2] <= y

\* ------------------------------------------------------------------------
\* Collision and placement (Collision.ts)
\* ------------------------------------------------------------------------

\* every block is inside the board and on a free cell
blocksFree(b, blocks) ==
  \A i \in 1..Len(blocks) :
    /\ isValidPosition(b, blocks[i].x, blocks[i].y)
    /\ ~isCellOccupied(b, blocks[i].x, blocks[i].y)

canPlacePiece(b, type, position, rotation) ==
  blocksFree(b, blocksAt(TETROMINO_SHAPES[type][rotation + 1], position))

isValidPiecePosition(b, piece) == blocksFree(b, getPieceBlocks(piece))

\* variant: a move that is never refused
canMove_Unchecked(b, piece, dx, dy) == TRUE

canMove(b, piece, dx, dy) ==
  canPlacePiece(b, piece.type,
                P(piece.position.x + dx, piece.position.y + dy), piece.rotation)

\* the moved piece, or Null
tryMove(b, piece, dx, dy) ==
  IF ~canMove(b, piece, dx, dy) THEN Null
  ELSE [piece EXCEPT !.position = P(piece.position.x + dx, piece.position.y + dy)]

isOnGround(b, piece) == ~canMove(b, piece, 0, -1)

\* while (canPlacePiece(.., ghostY - 1, ..)) ghostY--
RECURSIVE ghostFrom(_, _, _)
ghostFrom(b, piece, ghostY) ==
  IF canPlacePiece(b, piece.type, P(piece.position.x, ghostY - 1), piece.rotation)
  THEN ghostFrom(b, piece, ghostY - 1)
  ELSE ghostY

calculateGhostY(b, piece) == ghostFrom(b, piece, piece.position.y)

getDropPositions(b, piece) ==
  LET ghostY == calculateGhostY(b, piece)
  IN  [positions |-> getPieceBlocks([piece EXCEPT !.position.y = ghostY]),
       dropDistance |-> piece.position.y - ghostY]

cornerFilled(b, c) == ~isValidPosition(b, c.x, c.y) \/ isCellOccupied(b, c.x, c.y)

\* indices into corners (1-based): top-left, top-right, bottom-left, bottom-right
getFrontCornerIndices(rotation) ==
  CASE rotation = 0 -> <<1, 2>>
    [] rotation = 1 -> <<2, 4>>
    [] rotation = 2 -> <<3, 4>>
    [] rotation = 3 -> <<1, 3>>

detectTSpin(b, piece, wasWallKick, kickIndex) ==
  IF piece.type # "T" THEN [isTSpin |-> FALSE, isMini |-> FALSE]
  ELSE
    LET corners == << P(piece.position.x - 1, piece.position.y + 1),
                      P(piece.position.x + 1, piece.position.y + 1),
                      P(piece.position.x - 1, piece.position.y - 1),
                      P(piece.position.x + 1, piece.position.y - 1) >>
        filledCorners == Cardinality({ i \in 1..4 : cornerFilled(b, corners[i]) })
        front == getFrontCornerIndices(piece.rotation)
        frontCornersFilled ==
          Cardinality({ j \in 1..2 : cornerFilled(b, corners[front[j]]) })
    IN  IF filledCorners < 3 THEN [isTSpin |-> FALSE, isMini |-> FALSE]
        ELSE [isTSpin |-> TRUE,
              isMini |-> frontCornersFilled < 2 /\ ~(wasWallKick /\ kickIndex = 4)]

isPerfectClear(b) == Cardinality(DOMAIN b) = 0

\* ------------------------------------------------------------------------
\* Rotation (Rotation.ts)
\* ------------------------------------------------------------------------

\* variant: a counter-clockwise turn goes clockwise as well
getNewRotation_Clockwise(current, direction) ==
  CASE direction = "cw"  -> (current + 1) % 4
    [] direction = "ccw" -> (current + 1) % 4
    [] direction = "180" -> (current + 2) % 4

getNewRotation(current, direction) ==
  CASE direction = "cw"  -> (current + 1) % 4
    [] direction = "ccw" -> (current + 3) % 4
    [] direction = "180" -> (current + 2) % 4

RotationFailed ==
  [success |-> FALSE, newPiece |-> Null, wasWallKick |-> FALSE, kickIndex |-> -1]

\* the 90-degree branch of tryRotate: the first kick offset that can be placed
\* the result for the kick of index i (1-based here, i - 1 in the code)
kickResult(piece, newRotation, kick, i) ==
  [success |-> TRUE,
   newPiece |-> [piece EXCEPT
                   !.position = P(piece.position.x + kick.x, piece.position.y + kick.y),
                   !.rotation = newRotation],
   wasWallKick |-> i - 1 > 0,
   kickIndex |-> i - 1]

\* the first index of kicks, from i on, whose offset can be placed; 0 if none
RECURSIVE firstKick(_, _, _, _, _)
firstKick(b, piece, newRotation, kicks, i) ==
  IF i > Len(kicks) THEN 0
  ELSE IF canPlacePiece(b, piece.type,
                        P(piece.position.x + kicks[i].x, piece.position.y + kicks[i].y),
                        newRotation)
  THEN i
  ELSE firstKick(b, piece, newRotation, kicks, i + 1)

kickSearch(piece, newRotation, kicks, i) ==
  IF i = 0 THEN RotationFailed ELSE kickResult(piece, newRotation, kicks[i], i)

tryKicks(b, piece, newRotation, kicks) ==
  kickSearch(piece, newRotation, kicks, firstKick(b, piece, newRotation, kicks, 1))

\* the 90-degree branch of tryRotate
tryRotateKicks(b, piece, direction) ==
  tryKicks(b, piece, getNewRotation(piece.rotation, direction),
           getWallKicks(piece.type)[
             getWallKickKey(piece.rotation, getNewRotation(piece.rotation, direction))])

\* the second quarter turn of a 180-degree rotation, if the first succeeded
secondTurn(b, first, direction) ==
  IF first.success /\ first.newPiece # Null
  THEN tryRotateKicks(b, first.newPiece, direction)
  ELSE RotationFailed

\* variant: the 180-degree branch prefers the counter-clockwise double turn
halfTurn_CcwFirst(b, piece, newRotation, cwSecond, ccwSecond) ==
  IF ccwSecond.success THEN ccwSecond
  ELSE IF cwSecond.success THEN cwSecond
  ELSE IF canPlacePiece(b, piece.type, piece.position, newRotation)
       THEN [success |-> TRUE,
             newPiece |-> [piece EXCEPT !.rotation = newRotation],
             wasWallKick |-> FALSE, kickIndex |-> 0]
       ELSE RotationFailed

\* the 180-degree branch, given the outcomes of the two double turns
halfTurn(b, piece, newRotation, cwSecond, ccwSecond) ==
  IF cwSecond.success THEN cwSecond
  ELSE IF ccwSecond.success THEN ccwSecond
  ELSE IF canPlacePiece(b, piece.type, piece.position, newRotation)
       THEN [success |-> TRUE,
             newPiece |-> [piece EXCEPT !.rotation = newRotation],
             wasWallKick |-> FALSE, kickIndex |-> 0]
       ELSE RotationFailed

tryRotate(b, piece, direction) ==
  IF direction = "180"
  THEN halfTurn(b, piece, getNewRotation(piece.rotation, direction),
                secondTurn(b, tryRotateKicks(b, piece, "cw"), "cw"),
                secondTurn(b, tryRotateKicks(b, piece, "ccw"), "ccw"))
  ELSE tryRotateKicks(b, piece, direction)

rotationData(result) ==
  IF result.success /\ result.newPiece # Null
  THEN [piece |-> result.newPiece, wasWallKick |-> result.wasWallKick,
        kickIndex |-> result.kickIndex]
  ELSE Null

\* the rotated piece with its kick data, or Null
rotatePiece(b, piece, direction) == rotationData(tryRotate(b, piece, direction))

\* ------------------------------------------------------------------------
\* Bag (tetromino.ts)
\* ------------------------------------------------------------------------

\* createBag shuffles the 7 types with Math.random: any permutation can come
\* out.  The model draws the shuffle from these permutations.
Shuffles ==
  { <<"I", "O", "T", "S", "Z", "J", "L">>,
    <<"T", "S", "I", "L", "O", "Z", "J">> }

createBag == Shuffles

\* the first n elements of s (all of s when it is shorter)
Take(s, n) == SubSeq(s, 1, Min(n, Len(s)))

\* createPieceBag, given the two shuffles
createPieceBag(current, next, previewCount) ==
  [current |-> current, next |-> next,
   preview |-> Take(current \o next, previewCount)]

\* getNextPiece that changes bags one piece early
getNextPiece_EarlySwap(bg, fresh) ==
  LET piece == Head(bg.current)
      rest == Tail(bg.current)
      current == IF Len(rest) <= 1 THEN bg.next ELSE rest
      next == IF Len(rest) <= 1 THEN fresh ELSE bg.next
      shifted == IF bg.preview = << >> THEN << >> ELSE Tail(bg.preview)
      allPieces == current \o next
      preview == IF Len(shifted) < Len(bg.preview) /\ Len(allPieces) > Len(shifted)
                 THEN Append(shifted, allPieces[Len(shifted) + 1])
                 ELSE shifted
  IN  [piece |-> piece,
       newBag |-> [current |-> current, next |-> next, preview |-> preview]]

\* getNextPiece that refills the preview from the head of the bags
getNextPiece_StalePreview(bg, fresh) ==
  LET piece == Head(bg.current)
      rest == Tail(bg.current)
      current == IF rest = << >> THEN bg.next ELSE rest
      next == IF rest = << >> THEN fresh ELSE bg.next
      shifted == IF bg.preview = << >> THEN << >> ELSE Tail(bg.preview)
      allPieces == current \o next
      preview == IF Len(shifted) < Len(bg.preview) /\ Len(allPieces) > Len(shifted)
                 THEN Append(shifted, allPieces[1])
                 ELSE shifted
  IN  [piece |-> piece,
       newBag |-> [current |-> current, next |-> next, preview |-> preview]]

\* getNextPiece, given the fresh shuffle used if the current bag runs out
getNextPiece(bg, fresh) ==
  LET piece == Head(bg.current)
      rest == Tail(bg.current)
      current == IF rest = << >> THEN bg.next ELSE rest
      next == IF rest = << >> THEN fresh ELSE bg.next
      shifted == IF bg.preview = << >> THEN << >> ELSE Tail(bg.preview)
      allPieces == current \o next
      preview == IF Len(shifted) < Len(bg.preview) /\ Len(allPieces) > Len(shifted)
                 THEN Append(shifted, allPieces[Len(shifted) + 1])
                 ELSE shifted
  IN  [piece |-> piece,
       newBag |-> [current |-> current, next |-> next, preview |-> preview]]

\* ------------------------------------------------------------------------
\* Scoring and heat (scoring.ts), gravity (gameState.ts)
\* ------------------------------------------------------------------------

basePoints(clearType) ==
  CASE clearType = "single" -> 100
    [] clearType = "double" -> 300
    [] clearType = "triple" -> 500
    [] clearType = "tetris" -> 800
    [] clearType = "t-spin-mini" -> 100
    [] clearType = "t-spin-single" -> 800
    [] clearType = "t-spin-double" -> 1200
    [] clearType = "t-spin-triple" -> 1600
    [] clearType = "perfect-clear" -> 3000

\* DEFAULT_HEAT_CONFIG.clearHeat, in millionths
clearHeat(clearType) ==
  CASE clearType = "single" -> 80000
    [] clearType = "double" -> 150000
    [] clearType = "triple" -> 250000
    [] clearType = "tetris" -> 400000
    [] clearType = "t-spin-mini" -> 200000
    [] clearType = "t-spin-single" -> 300000
    [] clearType = "t-spin-double" -> 450000
    [] clearType = "t-spin-triple" -> 600000
    [] clearType = "perfect-clear" -> 800000

\* comboBonus 50, backToBackMultiplier 1.5 with Math.floor
calculateClearPoints(clearType, level, comboCount, isBackToBack) ==
  LET base == basePoints(clearType) * level
      withCombo == IF comboCount > 0 THEN base + 50 * comboCount * level ELSE base
  IN  IF isBackToBack THEN (withCombo * 3) \div 2 ELSE withCombo

\* variant: four lines fall to the default of the switch
getClearType_NoTetris(lineCount, isTSpin, isMini) ==
  IF isTSpin THEN
    IF isMini THEN "t-spin-mini"
    ELSE CASE lineCount = 1 -> "t-spin-single"
           [] lineCount = 2 -> "t-spin-double"
           [] lineCount = 3 -> "t-spin-triple"
           [] OTHER -> "t-spin-mini"
  ELSE CASE lineCount = 1 -> "single"
         [] lineCount = 2 -> "double"
         [] lineCount = 3 -> "triple"
         [] OTHER -> "single"

getClearType(lineCount, isTSpin, isMini) ==
  IF isTSpin THEN
    IF isMini THEN "t-spin-mini"
    ELSE CASE lineCount = 1 -> "t-spin-single"
           [] lineCount = 2 -> "t-spin-double"
           [] lineCount = 3 -> "t-spin-triple"
           [] OTHER -> "t-spin-mini"
  ELSE CASE lineCount = 1 -> "single"
         [] lineCount = 2 -> "double"
         [] lineCount = 3 -> "triple"
         [] lineCount = 4 -> "tetris"
         [] OTHER -> "single"

isDifficultClear(clearType) ==
  clearType \in {"tetris", "t-spin-mini", "t-spin-single", "t-spin-double",
                 "t-spin-triple"}

\* comboMultiplier 0.05, backToBackMultiplier 1.5, maxHeat 1.0; millionths
calculateHeatContribution(clearType, comboCount, isBackToBack) ==
  LET h0 == clearHeat(clearType)
      h1 == h0 + (h0 * 5 * comboCount) \div 100
      h2 == IF isBackToBack THEN (h1 * 3) \div 2 ELSE h1
  IN  Min(h2, 1000000)

\* variant: the decay without Math.max
decayHeat_Unclamped(currentHeat, deltaMs) == currentHeat - 80 * deltaMs

\* decayPerSecond 0.08: 80 millionths per ms
decayHeat(currentHeat, deltaMs) == Max(0, currentHeat - 80 * deltaMs)

\* 1 / (0.8 - (level - 1) * 0.007) ^ (level - 1) cells per second for the
\* levels 1..20, rounded to milli-cells per second
GravityTable ==
  << 1000, 1261, 1619, 2115, 2815, 3817, 5272, 7422, 10652, 15588,
     23269, 35439, 55086, 87418, 141671, 234546, 396812, 686276, 1213729,
     2195883 >>

calculateGravity(level) == GravityTable[Min(level, 20)]

\* ------------------------------------------------------------------------
\* Piece and lock-delay helpers (Board.ts)
\* ------------------------------------------------------------------------

NoType == "null"

spawnPosition == P((BoardWidth \div 2) - 1, BoardHeight)

\* the spawned piece, or Null on block-out
spawnPiece(b, type) ==
  LET piece0 == [type |-> type,
                 position |-> spawnPosition,
                 rotation |-> 0,
                 ghostY |-> 0,
                 lockDelay |-> [active |-> FALSE, remaining |-> LockDelay,
                                moveResets |-> 0, maxResets |-> LockDelayResets],
                 softDropCells |-> 0]
      piece == [piece0 EXCEPT !.ghostY = calculateGhostY(b, piece0)]
  IN  IF ~isValidPiecePosition(b, piece) THEN Null ELSE piece

spawnNextPiece(b, bg, fresh) ==
  LET nx == getNextPiece(bg, fresh)
  IN  [piece |-> spawnPiece(b, nx.piece), newBag |-> nx.newBag]

lockActivePiece(b, piece) ==
  LET positions == getPieceBlocks(piece)
  IN  [newBoard |-> lockPiece(b, positions), lockedPositions |-> positions]

processLineClears(b) ==
  LET clearedRows == getFilledRows(b)
  IN  IF clearedRows = {} THEN [newBoard |-> b, clearedRows |-> {}]
      ELSE [newBoard |-> clearRows(b, clearedRows), clearedRows |-> clearedRows]

\* in eighths: min(1, (highestRow - threshold) / 8), threshold = height - 8
getDangerLevel(b) ==
  LET highestRow == getHighestOccupiedRow(b)
      dangerThreshold == BoardHeight - 8
  IN  IF highestRow = -1 THEN 0
      ELSE IF highestRow < dangerThreshold THEN 0
      ELSE Min(8, highestRow - dangerThreshold)

updateGhostY(b, piece) == [piece EXCEPT !.ghostY = calculateGhostY(b, piece)]


\* variant: a reset that counts itself but leaves the timer where it was
resetLockDelay_NoRestore(piece, lockDelay) ==
  IF piece.lockDelay.moveResets >= piece.lockDelay.maxResets THEN piece
  ELSE [piece EXCEPT !.lockDelay.moveResets = piece.lockDelay.moveResets + 1]

\* lockDelay: the value the timer is restored to (config.lockDelay, or the
\* default of the parameter when the caller passes no config)
resetLockDelay(piece, lockDelay) ==
  IF piece.lockDelay.moveResets >= piece.lockDelay.maxResets THEN piece
  ELSE [piece EXCEPT !.lockDelay.remaining = lockDelay,
                     !.lockDelay.moveResets = piece.lockDelay.moveResets + 1]

activateLockDelay(piece) ==
  IF piece.lockDelay.active THEN piece
  ELSE [piece EXCEPT !.lockDelay.active = TRUE]

deactivateLockDelay(piece) ==
  IF ~piece.lockDelay.active THEN piece
  ELSE [piece EXCEPT !.lockDelay.active = FALSE]

updateLockDelay(piece, deltaMs) ==
  IF ~piece.lockDelay.active THEN piece
  ELSE [piece EXCEPT !.lockDelay.remaining = piece.lockDelay.remaining - deltaMs]

isLockDelayExpired(piece) ==
  piece.lockDelay.active /\ piece.lockDelay.remaining <= 0

\* ------------------------------------------------------------------------
\* The steps of updateGame (GameLoop.ts).  Each takes the GameState record
\* and yields an UpdateResult: [state, events].
\* ------------------------------------------------------------------------

Result(s, ev) == [state |-> s, events |-> ev]


\* variant: a hold whose swap draws the incoming piece from the bag
processHold_SwapDraws(s, fresh) ==
  IF s.activePiece = Null \/ ~s.hold.available THEN Result(s, << >>)
  ELSE
    LET sp == spawnNextPiece(s.board, s.bag, fresh)
    IN  IF sp.piece # Null
        THEN Result([s EXCEPT !.activePiece = sp.piece,
                              !.hold = [piece |-> s.activePiece.type,
                                        available |-> FALSE],
                              !.bag = sp.newBag],
                    << [type |-> "piece-hold", swapped |-> s.hold.piece,
                        held |-> s.activePiece.type] >>)
        ELSE Result(s, << >>)

\* variant: the hold slot is written before the spawn of the incoming piece
\* is tested
processHold_StoresFirst(s, fresh) ==
  IF s.activePiece = Null \/ ~s.hold.available THEN Result(s, << >>)
  ELSE
    LET currentType == s.activePiece.type
    IN  IF s.hold.piece # NoType THEN
          LET newPiece ==
                spawnNextPiece(s.board,
                               [s.bag EXCEPT !.current = <<s.hold.piece>> \o s.bag.current],
                               fresh).piece
              heldType == s.hold.piece
          IN  IF newPiece # Null THEN
                LET spawnedPiece ==
                      [newPiece EXCEPT
                         !.type = heldType,
                         !.ghostY = calculateGhostY(s.board,
                                                    [newPiece EXCEPT !.type = heldType])]
                IN  Result([s EXCEPT !.activePiece = spawnedPiece,
                                     !.hold = [piece |-> currentType, available |-> FALSE],
                                     !.bag = s.bag],
                           << [type |-> "piece-hold", swapped |-> heldType,
                               held |-> currentType] >>)
              ELSE Result([s EXCEPT !.hold = [piece |-> currentType, available |-> FALSE]],
                          << >>)
        ELSE
          LET sp == spawnNextPiece(s.board, s.bag, fresh)
          IN  IF sp.piece # Null THEN
                Result([s EXCEPT !.activePiece = sp.piece,
                                 !.hold = [piece |-> currentType, available |-> FALSE],
                                 !.bag = sp.newBag],
                       << [type |-> "piece-hold", swapped |-> NoType,
                           held |-> currentType],
                          [type |-> "piece-spawn", piece |-> sp.piece.type] >>)
              ELSE Result([s EXCEPT !.hold = [piece |-> currentType, available |-> FALSE]],
                          << >>)

\* fresh: the shuffle createBag returns if the bag runs out in this call
processHold(s, fresh) ==
  IF s.activePiece = Null \/ ~s.hold.available THEN Result(s, << >>)
  ELSE
    LET currentType == s.activePiece.type
    IN  IF s.hold.piece # NoType THEN
          LET newPiece ==
                spawnNextPiece(s.board,
                               [s.bag EXCEPT !.current = <<s.hold.piece>> \o s.bag.current],
                               fresh).piece
              heldType == s.hold.piece
          IN  IF newPiece # Null THEN
                LET spawnedPiece ==
                      [newPiece EXCEPT
                         !.type = heldType,
                         !.ghostY = calculateGhostY(s.board,
                                                    [newPiece EXCEPT !.type = heldType])]
                IN  Result([s EXCEPT !.activePiece = spawnedPiece,
                                     !.hold = [piece |-> currentType, available |-> FALSE],
                                     !.bag = s.bag],
                           << [type |-> "piece-hold", swapped |-> heldType,
                               held |-> currentType] >>)
              ELSE Result(s, << >>)
        ELSE
          LET sp == spawnNextPiece(s.board, s.bag, fresh)
          IN  IF sp.piece # Null THEN
                Result([s EXCEPT !.activePiece = sp.piece,
                                 !.hold = [piece |-> currentType, available |-> FALSE],
                                 !.bag = sp.newBag],
                       << [type |-> "piece-hold", swapped |-> NoType,
                           held |-> currentType],
                          [type |-> "piece-spawn", piece |-> sp.piece.type] >>)
              ELSE Result(s, << >>)

\* resetLockDelay(newPiece): no config is passed, the default applies
groundedReset(b, newPiece, lockDelay) ==
  IF isOnGround(b, newPiece) THEN resetLockDelay(newPiece, lockDelay) ELSE newPiece

rotationOutcome(s, result, finalPiece) ==
  Result([s EXCEPT !.activePiece = finalPiece],
         << [type |-> "piece-rotate", rotation |-> finalPiece.rotation,
             wasWallKick |-> result.wasWallKick,
             kickIndex |-> result.kickIndex] >>)

rotationApplied(s, result) ==
  IF result # Null
  THEN rotationOutcome(s, result,
                       groundedReset(s.board, updateGhostY(s.board, result.piece),
                                     DefaultLockDelay))
  ELSE Result(s, << >>)

processRotation(s, direction) ==
  IF s.activePiece = Null THEN Result(s, << >>)
  ELSE rotationApplied(s, rotatePiece(s.board, s.activePiece, direction))

\* variant: a refused move is reported as a move to the same position
processMove_AlwaysReports(s, dx, dy) ==
  IF s.activePiece = Null THEN Result(s, << >>)
  ELSE
    LET moved == tryMove(s.board, s.activePiece, dx, dy)
    IN  IF moved # Null THEN
          LET ghosted == updateGhostY(s.board, moved)
              newPiece == IF isOnGround(s.board, ghosted)
                          THEN resetLockDelay(ghosted, LockDelay)
                          ELSE ghosted
              direction == IF dx < 0 THEN "left" ELSE IF dx > 0 THEN "right" ELSE "down"
          IN  Result([s EXCEPT !.activePiece = newPiece],
                     << [type |-> "piece-move", direction |-> direction,
                         position |-> newPiece.position] >>)
        ELSE Result(s, << [type |-> "piece-move",
                           direction |-> IF dx < 0 THEN "left" ELSE "right",
                           position |-> s.activePiece.position] >>)

processMove(s, dx, dy) ==
  IF s.activePiece = Null THEN Result(s, << >>)
  ELSE
    LET moved == tryMove(s.board, s.activePiece, dx, dy)
    IN  IF moved # Null THEN
          LET ghosted == updateGhostY(s.board, moved)
              newPiece == IF isOnGround(s.board, ghosted)
                          THEN resetLockDelay(ghosted, LockDelay)
                          ELSE ghosted
              direction == IF dx < 0 THEN "left" ELSE IF dx > 0 THEN "right" ELSE "down"
          IN  Result([s EXCEPT !.activePiece = newPiece],
                     << [type |-> "piece-move", direction |-> direction,
                         position |-> newPiece.position] >>)
        ELSE Result(s, << >>)

\* while (accumulator >= 1) { tryMove down, or zero the accumulator and stop }
RECURSIVE gravityLoop(_, _, _, _, _)
gravityLoop(b, piece, accumulator, cellsDropped, softDrop) ==
  IF accumulator >= 1000000 THEN
    LET moved == tryMove(b, piece, 0, -1)
    IN  IF moved # Null THEN
          gravityLoop(b,
                      IF softDrop
                      THEN [moved EXCEPT !.softDropCells = moved.softDropCells + 1]
                      ELSE moved,
                      accumulator - 1000000, cellsDropped + 1, softDrop)
        ELSE [piece |-> piece, accumulator |-> 0, cellsDropped |-> cellsDropped]
  ELSE [piece |-> piece, accumulator |-> accumulator, cellsDropped |-> cellsDropped]

\* processGravity once the loop has run
gravityResult(s, softDrop, loop) ==
  Result([s EXCEPT !.activePiece = updateGhostY(s.board, loop.piece),
                   !.timing.gravityAccumulator = loop.accumulator],
         IF softDrop /\ loop.cellsDropped > 0
         THEN << [type |-> "soft-drop", cells |-> loop.cellsDropped] >>
         ELSE << >>)

processGravity(s, deltaMs, softDrop) ==
  IF s.activePiece = Null THEN Result(s, << >>)
  ELSE gravityResult(s, softDrop,
         gravityLoop(s.board, s.activePiece,
                     s.timing.gravityAccumulator
                       + deltaMs * (IF softDrop
                                    THEN s.timing.gravitySpeed * SoftDropMultiplier
                                    ELSE s.timing.gravitySpeed),
                     0, softDrop))

\* variant: the loop without its test of maxLevel
RECURSIVE levelLoop_Uncapped(_, _, _)
levelLoop_Uncapped(remainingLines, newLevel, ev) ==
  IF remainingLines >= LinesPerLevel
  THEN levelLoop_Uncapped(remainingLines - LinesPerLevel, newLevel + 1,
                          Append(ev, [type |-> "level-up", newLevel |-> newLevel + 1,
                                      previousLevel |-> newLevel]))
  ELSE [remainingLines |-> remainingLines, newLevel |-> newLevel, events |-> ev]

\* while (remainingLines >= linesPerLevel && newLevel < maxLevel)
RECURSIVE levelLoop(_, _, _)
levelLoop(remainingLines, newLevel, ev) ==
  IF remainingLines >= LinesPerLevel /\ newLevel < MaxLevel
  THEN levelLoop(remainingLines - LinesPerLevel, newLevel + 1,
                 Append(ev, [type |-> "level-up", newLevel |-> newLevel + 1,
                             previousLevel |-> newLevel]))
  ELSE [remainingLines |-> remainingLines, newLevel |-> newLevel, events |-> ev]

\* the state a lock leaves before the scoring: board cleared, no active
\* piece, hold available again
lockedState(s, clearedBoard) ==
  [s EXCEPT !.board = clearedBoard,
            !.activePiece = Null,
            !.hold.available = TRUE]

\* the branch of processLock for a lock that clears lines
lockScored(s, lockEvent, clearedBoard, clearedRows, clearType) ==
  LET n == Cardinality(clearedRows)
      isDifficult == isDifficultClear(clearType)
      newComboCount == s.combo.comboCount + 1
      isBackToBack == isDifficult /\ s.combo.backToBackActive
      newBackToBack == IF isDifficult
                       THEN (IF isBackToBack THEN s.combo.backToBack + 1 ELSE 1)
                       ELSE 0
      points == calculateClearPoints(clearType, s.score.level,
                                     newComboCount, isBackToBack)
      perfectClear == isPerfectClear(clearedBoard)
      totalPoints == IF perfectClear THEN points + 3000 * s.score.level
                     ELSE points
      heatContribution == calculateHeatContribution(clearType, newComboCount,
                                                    isBackToBack)
      newHeat == Min(1000000, s.streak.heatLevel + heatContribution)
      clearEvent == [type |-> clearType, lines |-> clearedRows,
                     timestamp |-> s.timing.gameTime,
                     backToBack |-> isBackToBack,
                     comboCount |-> newComboCount,
                     points |-> totalPoints,
                     heatContribution |-> heatContribution]
      ev1 == << lockEvent, [type |-> "lines-clear", event |-> clearEvent] >>
      ev2 == IF newComboCount > 1
             THEN Append(ev1, [type |-> "combo", count |-> newComboCount])
             ELSE ev1
      ev3 == IF isBackToBack /\ newBackToBack > 1
             THEN Append(ev2, [type |-> "back-to-back", count |-> newBackToBack])
             ELSE ev2
      ev4 == IF perfectClear
             THEN Append(ev3, [type |-> "perfect-clear",
                               points |-> 3000 * s.score.level])
             ELSE ev3
      lv == levelLoop(s.score.linesAtLevel + n, s.score.level, ev4)
      ev5 == IF newHeat # s.streak.heatLevel
             THEN Append(lv.events, [type |-> "heat-change", heat |-> newHeat,
                                     delta |-> heatContribution,
                                     previousHeat |-> s.streak.heatLevel])
             ELSE lv.events
  IN  Result([lockedState(s, clearedBoard) EXCEPT
                !.score = [score |-> s.score.score + totalPoints,
                           level |-> lv.newLevel,
                           linesCleared |-> s.score.linesCleared + n,
                           linesAtLevel |-> lv.remainingLines,
                           linesToNextLevel |-> LinesPerLevel - lv.remainingLines],
                !.combo = [comboCount |-> newComboCount,
                           backToBack |-> newBackToBack,
                           backToBackActive |-> isDifficult,
                           perfectClears |-> IF perfectClear
                                             THEN s.combo.perfectClears + 1
                                             ELSE s.combo.perfectClears],
                !.streak = [heatLevel |-> newHeat,
                            peakHeat |-> Max(s.streak.peakHeat, newHeat),
                            timeSinceLastClear |-> 0],
                !.timing.gravitySpeed = calculateGravity(lv.newLevel),
                !.timing.baseGravity = calculateGravity(lv.newLevel)],
             ev5)

\* variant: the clear type without the T-spin detection
lockClearType_NoTSpin(n, tSpinResult) ==
  getClearType(n, FALSE, FALSE)

\* getClearType(clearedRows.length, tSpinResult.isTSpin, tSpinResult.isMini)
lockClearType(n, tSpinResult) ==
  getClearType(n, tSpinResult.isTSpin, tSpinResult.isMini)

\* variant: a lock without a clear also ends the back-to-back
lockCleared_BreaksStreak(s, piece, lockEvent, cleared) ==
  IF Cardinality(cleared.clearedRows) > 0
  THEN lockScored(s, lockEvent, cleared.newBoard, cleared.clearedRows,
                  lockClearType(Cardinality(cleared.clearedRows),
                                detectTSpin(s.board, piece,
                                            piece.lockDelay.moveResets > 0, 0)))
  ELSE Result([lockedState(s, cleared.newBoard) EXCEPT
                 !.combo.comboCount = 0, !.combo.backToBackActive = FALSE],
              << lockEvent >>)

\* processLock once the lines are cleared; the T-spin test reads the board
\* as it was before the lock, with kickIndex 0
lockCleared(s, piece, lockEvent, cleared) ==
  IF Cardinality(cleared.clearedRows) > 0
  THEN lockScored(s, lockEvent, cleared.newBoard, cleared.clearedRows,
                  lockClearType(Cardinality(cleared.clearedRows),
                                detectTSpin(s.board, piece,
                                            piece.lockDelay.moveResets > 0, 0)))
  ELSE Result([lockedState(s, cleared.newBoard) EXCEPT !.combo.comboCount = 0],
              << lockEvent >>)

\* processLock once the piece is written to the board
lockPlaced(s, piece, locked) ==
  lockCleared(s, piece,
              [type |-> "piece-lock", positions |-> locked.lockedPositions,
               piece |-> piece.type],
              processLineClears(locked.newBoard))

processLock(s) ==
  IF s.activePiece = Null THEN Result(s, << >>)
  ELSE lockPlaced(s, s.activePiece, lockActivePiece(s.board, s.activePiece))

\* variant: the drop event after the lock's events
hardDropResult_LockFirst(dropEvent, lockResult, hardDropPoints) ==
  Result([lockResult.state EXCEPT
            !.score.score = lockResult.state.score.score + hardDropPoints],
         lockResult.events \o << dropEvent >>)

\* the hard drop's result from the lock's: the drop event first, the drop
\* points on top of the score
hardDropResult(dropEvent, lockResult, hardDropPoints) ==
  Result([lockResult.state EXCEPT
            !.score.score = lockResult.state.score.score + hardDropPoints],
         << dropEvent >> \o lockResult.events)

hardDropLock(s, dropDistance, droppedPiece) ==
  hardDropResult([type |-> "hard-drop", startY |-> s.activePiece.position.y,
                  endY |-> droppedPiece.position.y, cells |-> dropDistance],
                 processLock([s EXCEPT !.activePiece = droppedPiece]),
                 dropDistance * SoftDropMultiplier * 2)

\* variant: the piece locks at the row where it is
processHardDrop_InPlace(s) ==
  IF s.activePiece = Null THEN Result(s, << >>)
  ELSE hardDropLock(s, getDropPositions(s.board, s.activePiece).dropDistance,
                    [s.activePiece EXCEPT
                       !.lockDelay.active = TRUE,
                       !.lockDelay.remaining = 0])

processHardDrop(s) ==
  IF s.activePiece = Null THEN Result(s, << >>)
  ELSE hardDropLock(s, getDropPositions(s.board, s.activePiece).dropDistance,
                    [s.activePiece EXCEPT
                       !.position.y = s.activePiece.ghostY,
                       !.lockDelay.active = TRUE,
                       !.lockDelay.remaining = 0])

\* variant: a block-out that emits no event
processSpawn_Silent(s, fresh) ==
  LET sp == spawnNextPiece(s.board, s.bag, fresh)
  IN  IF sp.piece = Null
      THEN Result([s EXCEPT !.phase = "gameOver"], << >>)
      ELSE Result([s EXCEPT !.activePiece = sp.piece, !.bag = sp.newBag],
                  << [type |-> "piece-spawn", piece |-> sp.piece.type] >>)

processSpawn(s, fresh) ==
  LET sp == spawnNextPiece(s.board, s.bag, fresh)
  IN  IF sp.piece = Null
      THEN Result([s EXCEPT !.phase = "gameOver"],
                  << [type |-> "game-over", finalScore |-> s.score.score,
                      finalLevel |-> s.score.level,
                      linesCleared |-> s.score.linesCleared] >>)
      ELSE Result([s EXCEPT !.activePiece = sp.piece, !.bag = sp.newBag],
                  << [type |-> "piece-spawn", piece |-> sp.piece.type] >>)

startGame(s, fresh) ==
  LET sp == spawnNextPiece(s.board, s.bag, fresh)
  IN  Result([s EXCEPT !.phase = "playing",
                       !.activePiece = sp.piece,
                       !.bag = sp.newBag],
             IF sp.piece # Null
             THEN << [type |-> "piece-spawn", piece |-> sp.piece.type] >>
             ELSE << >>)

\* createGameState, given the two shuffles of createPieceBag.  The score
\* state starts at level 1 (createScoreState); the input, mode and seed
\* fields are not read by the update and are not kept, nor is the list of
\* recent clears.
StartLevel == 1

createGameState(current, next) ==
  [phase |-> "menu",
   board |-> createBoard,
   activePiece |-> Null,
   hold |-> [piece |-> NoType, available |-> TRUE],
   bag |-> createPieceBag(current, next, PreviewCount),
   score |-> [score |-> 0, level |-> 1, linesCleared |-> 0, linesAtLevel |-> 0,
              linesToNextLevel |-> 10],
   combo |-> [comboCount |-> 0, backToBack |-> 0, backToBackActive |-> FALSE,
              perfectClears |-> 0],
   streak |-> [heatLevel |-> 0, peakHeat |-> 0, timeSinceLastClear |-> 0],
   timing |-> [gameTime |-> 0, lastUpdateTime |-> 0, gravityAccumulator |-> 0,
               gravitySpeed |-> calculateGravity(StartLevel),
               baseGravity |-> calculateGravity(StartLevel)]]

\* createTimingState(startLevel)
createTimingState(startLevel) ==
  [gameTime |-> 0, lastUpdateTime |-> 0, gravityAccumulator |-> 0,
   gravitySpeed |-> calculateGravity(startLevel),
   baseGravity |-> calculateGravity(startLevel)]

\* createGameState(mode, config) for a config with the given startLevel:
\* only createTimingState reads config.startLevel
createGameStateAt(current, next, startLevel) ==
  [createGameState(current, next) EXCEPT !.timing = createTimingState(startLevel)]

\* ------------------------------------------------------------------------
\* updateGame (GameLoop.ts), step by step.  Each step takes the UpdateResult
\* so far (newState and the event list) and the InputActions of the tick.
\* ------------------------------------------------------------------------

NoActions ==
  [moveLeft |-> FALSE, moveRight |-> FALSE, softDrop |-> FALSE,
   hardDrop |-> FALSE, rotateCW |-> FALSE, rotateCCW |-> FALSE,
   rotate180 |-> FALSE, hold |-> FALSE]

\* newState = result.state; events.push(...result.events)
Then(r, result) == Result(result.state, r.events \o result.events)

\* entry while playing: advance the clock, decay the heat
timingStep(s, deltaMs) ==
  LET s1 == [s EXCEPT !.timing.gameTime = s.timing.gameTime + deltaMs]
      newHeat == decayHeat(s1.streak.heatLevel, deltaMs)
  IN  Result(IF newHeat # s1.streak.heatLevel
             THEN [s1 EXCEPT !.streak.heatLevel = newHeat,
                             !.streak.timeSinceLastClear =
                                s1.streak.timeSinceLastClear + deltaMs]
             ELSE s1,
             << >>)


\* variant: a hold request that is honoured whether or not hold is available
holdStep_IgnoreAvailable(r, a, fresh) ==
  IF a.hold /\ r.state.activePiece # Null
  THEN Then(r, processHold([r.state EXCEPT !.hold.available = TRUE], fresh))
  ELSE r

holdStep(r, a, fresh) ==
  IF a.hold /\ r.state.hold.available /\ r.state.activePiece # Null
  THEN Then(r, processHold(r.state, fresh))
  ELSE r


\* variant: the rotation is dropped in a tick whose hold took effect
rotationStep_NotAfterHold(r, a) ==
  IF r.state.activePiece # Null
        /\ ~(\E i \in 1..Len(r.events) : r.events[i].type = "piece-hold")
  THEN IF a.rotateCW THEN Then(r, processRotation(r.state, "cw"))
       ELSE IF a.rotateCCW THEN Then(r, processRotation(r.state, "ccw"))
       ELSE IF a.rotate180 THEN Then(r, processRotation(r.state, "180"))
       ELSE r
  ELSE r

rotationStep(r, a) ==
  IF r.state.activePiece # Null
  THEN IF a.rotateCW THEN Then(r, processRotation(r.state, "cw"))
       ELSE IF a.rotateCCW THEN Then(r, processRotation(r.state, "ccw"))
       ELSE IF a.rotate180 THEN Then(r, processRotation(r.state, "180"))
       ELSE r
  ELSE r

moveStep(r, a) ==
  IF r.state.activePiece # Null
  THEN IF a.moveLeft THEN Then(r, processMove(r.state, -1, 0))
       ELSE IF a.moveRight THEN Then(r, processMove(r.state, 1, 0))
       ELSE r
  ELSE r

\* hard drop, or else soft drop and gravity
dropStep(r, a, deltaMs) ==
  IF a.hardDrop /\ r.state.activePiece # Null
  THEN Then(r, processHardDrop(r.state))
  ELSE IF r.state.activePiece # Null
  THEN Then(r, processGravity(r.state, deltaMs, a.softDrop))
  ELSE r

lockDelayStep(r, deltaMs) ==
  LET s == r.state
  IN  IF s.activePiece # Null /\ isOnGround(s.board, s.activePiece) THEN
        LET ticked == updateLockDelay(activateLockDelay(s.activePiece), deltaMs)
            s1 == [s EXCEPT !.activePiece = ticked]
        IN  IF isLockDelayExpired(ticked)
            THEN Then(r, processLock(s1))
            ELSE Result(s1, r.events)
      ELSE IF s.activePiece # Null
      THEN Result([s EXCEPT !.activePiece = deactivateLockDelay(s.activePiece)],
                  r.events)
      ELSE r

spawnStep(r, fresh) ==
  IF r.state.activePiece = Null /\ r.state.phase = "playing"
  THEN Then(r, processSpawn(r.state, fresh))
  ELSE r

\* the danger-zone check that ends updateGame
dangerStep(r) ==
  LET dangerLevel == getDangerLevel(r.state.board)
  IN  IF dangerLevel > 0
      THEN Result(r.state,
                  Append(r.events, [type |-> "danger-zone", active |-> TRUE,
                                    intensity |-> dangerLevel]))
      ELSE r

\* the whole tick; freshHold and freshSpawn are the shuffles createBag
\* returns if the hold or the spawn of this tick runs the bag out
updateGame(s, deltaMs, a, freshHold, freshSpawn) ==
  IF s.phase # "playing" THEN Result(s, << >>)
  ELSE
    LET r1 == holdStep(timingStep(s, deltaMs), a, freshHold)
        r2 == rotationStep(r1, a)
        r3 == moveStep(r2, a)
        r4 == dropStep(r3, a, deltaMs)
        r5 == lockDelayStep(r4, deltaMs)
        r6 == spawnStep(r5, freshSpawn)
    IN  dangerStep(r6)

\* resetGameState: a fresh state in phase countdown
resetGameState(current, next) ==
  [createGameState(current, next) EXCEPT !.phase = "countdown"]

\* ------------------------------------------------------------------------
\* ChaosManager (ChaosManager.ts): the pure part
\* ------------------------------------------------------------------------

EventCooldown == 15000
MaxEventCooldown == 30000
WarningMs == 1500

\* CHAOS_EVENTS: the duration in ms and the instant flag of each event type
CHAOS_EVENTS ==
  [gravitySurge |-> [duration |-> 8000, instant |-> FALSE],
   garbageRain  |-> [duration |-> 0,    instant |-> TRUE],
   pieceFreeze  |-> [duration |-> 2000, instant |-> FALSE],
   boardShake   |-> [duration |-> 5000, instant |-> FALSE],
   blackout     |-> [duration |-> 6000, instant |-> FALSE],
   speedFlip    |-> [duration |-> 5000, instant |-> FALSE],
   bonusClear   |-> [duration |-> 0,    instant |-> TRUE],
   windGust     |-> [duration |-> 4000, instant |-> FALSE]]

\* every type has a positive weight, so the draw can return any of them
selectRandomEvent == DOMAIN CHAOS_EVENTS

\* eventCooldown + Math.random() * (maxEventCooldown - eventCooldown): the
\* least value and the middle one
randomCooldown ==
  { EventCooldown, EventCooldown + (MaxEventCooldown - EventCooldown) \div 2 }

\* the cells move up by garbageCount, those pushed past the top are dropped,
\* and row y < garbageCount is filled with garbage but for gapPosition[y]
applyGarbageRain(b, garbageCount, gapPosition) ==
  LET kept == { k \in DOMAIN b : k[2] + garbageCount < TotalHeight }
      garbage == { k \in (0..(BoardWidth - 1)) \X (0..(garbageCount - 1)) :
                     k[1] # gapPosition[k[2]] }
  IN  [ k \in { cellKey(q[1], q[2] + garbageCount) : q \in kept } \cup garbage |->
          IF k \in garbage THEN "garbage" ELSE b[cellKey(k[1], k[2] - garbageCount)] ]

applyBonusClear(b) ==
  [ k \in { q \in DOMAIN b : b[q] # "garbage" } |-> b[k] ]

\* the expiry loop of update
expireEvents(active, currentTime) ==
  SelectSeq(active, LAMBDA e : currentTime - e.startTime < e.duration)

HasActive(active, type) == \E i \in 1..Len(active) : active[i].type = type

\* the modifiers update returns that reach the input of the tick; the last
\* windGust in the list sets the direction
chaosModifiers(active) ==
  [gravityMultiplier |-> IF HasActive(active, "gravitySurge") THEN 3 ELSE 1,
   controlsReversed |-> HasActive(active, "speedFlip"),
   pieceFreeze |-> HasActive(active, "pieceFreeze"),
   windDirection |->
     IF HasActive(active, "windGust")
     THEN active[CHOOSE i \in 1..Len(active) :
                   /\ active[i].type = "windGust"
                   /\ \A j \in (i + 1)..Len(active) : active[j].type # "windGust"
                ].direction
     ELSE 0]

\* Game.gameLoop: the actions of the tick after the chaos modifiers; gust
\* tells whether the wind drift interval has run out
frameActions(input, m, gust) ==
  IF m.pieceFreeze THEN NoActions
  ELSE IF m.windDirection # 0 /\ gust
  THEN IF m.windDirection < 0
       THEN [input EXCEPT !.moveLeft = TRUE,
                          !.moveRight = IF m.controlsReversed THEN input.moveLeft
                                        ELSE input.moveRight]
       ELSE [input EXCEPT !.moveRight = TRUE,
                          !.moveLeft = IF m.controlsReversed THEN input.moveRight
                                       ELSE input.moveLeft]
  ELSE IF m.controlsReversed
  THEN [input EXCEPT !.moveLeft = input.moveRight, !.moveRight = input.moveLeft]
  ELSE input

\* the event-start callback of Game.setupChaosCallbacks on this.state
eventStart(s, eventType, garbageCount, gapPosition) ==
  IF eventType = "garbageRain"
  THEN [s EXCEPT !.board = applyGarbageRain(s.board, garbageCount, gapPosition)]
  ELSE IF eventType = "bonusClear"
  THEN [s EXCEPT !.board = applyBonusClear(s.board)]
  ELSE s

\* ------------------------------------------------------------------------
\* State
\* ------------------------------------------------------------------------

VARIABLES
  state,           \* Game.state: the GameState the host holds between ticks
  newState,        \* updateGame's working copy (newState) during a tick
  events,          \* updateGame's event list of the tick so far
  actions,         \* the InputActions of the tick, as far as they were read
  pc,              \* where the tick stands: "idle" between two ticks, else
                   \* the step of updateGame that runs next
  appPhase,        \* Game.appPhase
  running,         \* Game.running
  countdown,       \* the renderer holds the countdown callback (Game.start)
  now,             \* performance.now()
  enabled,         \* ChaosManager.enabled
  activeEvents,    \* ChaosManager.activeEvents
  lastEventTime,   \* ChaosManager.lastEventTime
  currentCooldown, \* ChaosManager.currentCooldown
  timeouts,        \* the setTimeout callbacks of triggerRandomEvent not yet run
  session,         \* history: how many sessions have been started
  lastStart,       \* history: the last call of the event-start callback
  accumulator,     \* Game.accumulator, in thirds of a millisecond
  keysDown,        \* InputManager.keysDown
  actionQueue,     \* InputManager.actionQueue
  dasLeft,         \* InputManager.dasLeft
  dasRight,        \* InputManager.dasRight
  lastMoveTime,    \* InputManager.lastMoveTime
  pressed,         \* history: the new presses of each trigger action so far
  delivered,       \* history: the update() results that carried each trigger action
  drawn,           \* history: the pieces returned by getNextPiece so far
  previews,        \* history: bag.preview at creation and after each draw of SpecBag
  nameEntryTimeoutId, \* Game.nameEntryTimeoutId: Null or the timer it names
  pendingHighScore,   \* Game.pendingHighScore
  nameEntryTimers,    \* the setTimeout callbacks of the game-over listener not yet run
  nameEntryShown,     \* history: the calls of renderer.showNameEntry
  nameEntryCleared    \* history: the timers clearTimeout has cancelled

gameVars == <<state, newState, events, actions, pc>>
chaosVars == <<enabled, activeEvents, lastEventTime, currentCooldown, timeouts>>
inputVars == <<keysDown, actionQueue, dasLeft, dasRight, lastMoveTime, pressed, delivered>>
bagVars == <<drawn, previews>>
nameEntryVars == <<nameEntryTimeoutId, pendingHighScore, nameEntryTimers, nameEntryShown,
                   nameEntryCleared>>
hostVars == <<appPhase, running, countdown, now, session, lastStart, accumulator,
              inputVars, bagVars, nameEntryVars>>
\* the trigger actions of InputManager.actionQueue
TriggerActions == {"rotateCW", "rotateCCW", "rotate180", "hardDrop", "hold"}

NoDas == [charging |-> FALSE, charged |-> FALSE, time |-> 0]

\* a constructed InputManager: the field initialisers
InputManagerInit ==
  /\ keysDown = {}
  /\ actionQueue = [a \in TriggerActions |-> FALSE]
  /\ dasLeft = NoDas
  /\ dasRight = NoDas
  /\ lastMoveTime = 0
  /\ pressed = [a \in TriggerActions |-> 0]
  /\ delivered = [a \in TriggerActions |-> 0]

vars == <<state, newState, events, actions, pc, appPhase, running, countdown, now,
          enabled, activeEvents, lastEventTime, currentCooldown, timeouts,
          session, lastStart, accumulator,
          keysDown, actionQueue, dasLeft, dasRight, lastMoveTime, pressed, delivered,
          drawn, previews,
          nameEntryTimeoutId, pendingHighScore, nameEntryTimers, nameEntryShown,
          nameEntryCleared>>

\* a constructed Game: no name-entry timer, no pending high score
NameEntryInit ==
  /\ nameEntryTimeoutId = Null
  /\ pendingHighScore = Null
  /\ nameEntryTimers = {}
  /\ nameEntryShown = {}
  /\ nameEntryCleared = {}

\* variant: the three handlers leave the timer and the pending score alone
ClearNameEntry_Forgotten ==
  UNCHANGED <<nameEntryTimers, nameEntryCleared, nameEntryTimeoutId, pendingHighScore>>

\* the head of restart, returnToMenu and startGameWithMode: clearTimeout of
\* the pending name-entry timer, and the pending high score dropped
ClearNameEntry ==
  /\ nameEntryTimers' = IF nameEntryTimeoutId # Null
                        THEN nameEntryTimers \ {nameEntryTimeoutId}
                        ELSE nameEntryTimers
  /\ nameEntryCleared' = IF nameEntryTimeoutId # Null
                         THEN nameEntryCleared \cup
                                (nameEntryTimers \cap {nameEntryTimeoutId})
                         ELSE nameEntryCleared
  /\ nameEntryTimeoutId' = Null
  /\ pendingHighScore' = Null

\* the shuffles createBag can return where getNextPiece would call it
FreshFor(bg) == IF Len(bg.current) = 1 THEN createBag ELSE { << >> }

\* a constructed ChaosManager: the field initialisers
ChaosManagerInit ==
  /\ enabled = FALSE
  /\ activeEvents = << >>
  /\ lastEventTime = 0
  /\ currentCooldown = EventCooldown
  /\ timeouts = << >>

\* Game.start() on a fresh game state, the chaos manager left as constructed
Init ==
  /\ \E current \in createBag, next \in createBag :
       state = startGame(createGameState(current, next), << >>).state
  /\ newState = Null
  /\ events = << >>
  /\ actions = NoActions
  /\ pc = "idle"
  /\ appPhase = "playing"
  /\ running = TRUE
  /\ countdown = FALSE
  /\ now = 0
  /\ ChaosManagerInit
  /\ session = 1
  /\ lastStart = Null
  /\ accumulator = 0
  /\ InputManagerInit
  /\ drawn = << >>
  /\ previews = << >>
  /\ NameEntryInit

Set(r) ==
  /\ newState' = r.state
  /\ events' = r.events

Cur == Result(newState, events)

\* updateGame entry while playing: advance the clock, decay the heat
TickBegin ==
  /\ pc = "idle"
  /\ state.phase = "playing"
  /\ state.timing.gameTime < MaxTicks * DeltaMs
  /\ Set(timingStep(state, DeltaMs))
  /\ actions' = NoActions
  /\ pc' = "hold"
  /\ UNCHANGED <<state, chaosVars, hostVars>>

\* variant: updateGame without the early return, the tick runs in any phase
TickNotPlaying_Runs ==
  /\ pc = "idle"
  /\ state.phase # "playing"
  /\ Set(timingStep(state, DeltaMs))
  /\ actions' = NoActions
  /\ pc' = "hold"
  /\ UNCHANGED <<state, chaosVars, hostVars>>

\* updateGame entry while not playing: the state is returned as it is
TickNotPlaying ==
  /\ pc = "idle"
  /\ state.phase # "playing"
  /\ Set(Result(state, << >>))
  /\ actions' = NoActions
  /\ pc' = "return"
  /\ UNCHANGED <<state, chaosVars, hostVars>>

HoldStep ==
  /\ pc = "hold"
  /\ \E hold \in BOOLEAN :
       /\ actions' = [actions EXCEPT !.hold = hold]
       /\ \E fresh \in FreshFor(newState.bag) : Set(holdStep(Cur, actions', fresh))
  /\ pc' = "rotate"
  /\ UNCHANGED <<state, chaosVars, hostVars>>

RotateStep ==
  /\ pc = "rotate"
  /\ \E rotateCW \in BOOLEAN, rotateCCW \in BOOLEAN, rotate180 \in BOOLEAN :
       /\ actions' = [actions EXCEPT !.rotateCW = rotateCW, !.rotateCCW = rotateCCW,
                                     !.rotate180 = rotate180]
       /\ Set(rotationStep(Cur, actions'))
  /\ pc' = "move"
  /\ UNCHANGED <<state, chaosVars, hostVars>>

MoveStep ==
  /\ pc = "move"
  /\ \E moveLeft \in BOOLEAN, moveRight \in BOOLEAN :
       /\ actions' = [actions EXCEPT !.moveLeft = moveLeft, !.moveRight = moveRight]
       /\ Set(moveStep(Cur, actions'))
  /\ pc' = "drop"
  /\ UNCHANGED <<state, chaosVars, hostVars>>

DropStep ==
  /\ pc = "drop"
  /\ \E hardDrop \in BOOLEAN, softDrop \in BOOLEAN :
       /\ actions' = [actions EXCEPT !.hardDrop = hardDrop, !.softDrop = softDrop]
       /\ Set(dropStep(Cur, actions', DeltaMs))
  /\ pc' = "lockDelay"
  /\ UNCHANGED <<state, chaosVars, hostVars>>

LockDelayStep ==
  /\ pc = "lockDelay"
  /\ Set(lockDelayStep(Cur, DeltaMs))
  /\ pc' = "spawn"
  /\ UNCHANGED <<state, actions, chaosVars, hostVars>>

SpawnStep ==
  /\ pc = "spawn"
  /\ \E fresh \in FreshFor(newState.bag) : Set(spawnStep(Cur, fresh))
  /\ pc' = "danger"
  /\ UNCHANGED <<state, actions, chaosVars, hostVars>>

DangerStep ==
  /\ pc = "danger"
  /\ Set(dangerStep(Cur))
  /\ pc' = "return"
  /\ UNCHANGED <<state, actions, chaosVars, hostVars>>

\* Game.gameLoop: this.state = result.state, then the events are emitted
Commit ==
  /\ pc = "return"
  /\ state' = newState
  /\ newState' = Null
  /\ events' = << >>
  /\ actions' = NoActions
  /\ pc' = "idle"
  /\ UNCHANGED <<chaosVars, hostVars>>

Next ==
  \/ TickBegin
  \/ TickNotPlaying
  \/ HoldStep
  \/ RotateStep
  \/ MoveStep
  \/ DropStep
  \/ LockDelayStep
  \/ SpawnStep
  \/ DangerStep
  \/ Commit

Spec == Init /\ [][Next]_vars

\* ------------------------------------------------------------------------
\* Mid-game states for the lock: a stack of column heights, any piece type
\* above it, a combo state left by earlier clears.  updateGame is applied
\* once to each of them.
\* ------------------------------------------------------------------------

StackHeights == {0, BoardHeight}

\* the boards whose column x is filled up to heights[x + 1]; a board between
\* two ticks has no full row
stackBoards ==
  { [ k \in { <<x, y>> \in (0..(BoardWidth - 1)) \X (0..(BoardHeight - 1)) :
                y < heights[x + 1] } |-> "none" ] :
      heights \in { h \in [1..BoardWidth -> StackHeights] :
                      \E x \in 1..BoardWidth : h[x] = 0 } }

comboStates ==
  { [comboCount |-> 0, backToBack |-> 0, backToBackActive |-> FALSE, perfectClears |-> 0],
    [comboCount |-> 0, backToBack |-> 1, backToBackActive |-> TRUE, perfectClears |-> 0],
    [comboCount |-> 1, backToBack |-> 1, backToBackActive |-> TRUE, perfectClears |-> 0] }

\* a started game whose board, combo state and active piece are replaced
midGameState(b, type, combo, gameTime) ==
  LET started == startGame(createGameState(CHOOSE sh \in createBag : TRUE,
                                           CHOOSE sh \in createBag : TRUE),
                           << >>).state
  IN  [started EXCEPT !.board = b,
                      !.combo = combo,
                      !.activePiece = spawnPiece(b, type),
                      !.timing.gameTime = gameTime]

\* the piece as spawned, or after a soft-dropping tick has brought it down
InitLock ==
  /\ \E b \in stackBoards, type \in TetrominoTypes, combo \in comboStates,
        dropped \in BOOLEAN :
       /\ spawnPiece(b, type) # Null
       /\ state =
            IF dropped
            THEN updateGame(midGameState(b, type, combo, (MaxTicks - 2) * DeltaMs),
                            DeltaMs, [NoActions EXCEPT !.softDrop = TRUE],
                            << >>, << >>).state
            ELSE midGameState(b, type, combo, (MaxTicks - 1) * DeltaMs)
  /\ newState = Null
  /\ events = << >>
  /\ actions = NoActions
  /\ pc = "idle"
  /\ appPhase = "playing"
  /\ running = TRUE
  /\ countdown = FALSE
  /\ now = 0
  /\ ChaosManagerInit
  /\ session = 1
  /\ lastStart = Null
  /\ accumulator = 0
  /\ InputManagerInit
  /\ drawn = << >>
  /\ previews = << >>
  /\ NameEntryInit

SpecLock == InitLock /\ [][Next]_vars

\* ------------------------------------------------------------------------
\* The host (Game.ts) around the tick: menu, countdown, frames, pause,
\* restart, and the chaos manager's timers.  A frame runs updateGame as a
\* whole.  Time is counted in ms; a pending timer fires when it is due.
\* ------------------------------------------------------------------------

TimeStep == 1500

\* maxAccumulator: 200 ms to a timestep of 1000 / 60 ms, twelve timesteps
MaxAccumulator == 12 * DeltaMs
MaxNow == 19500
MaxSessions == 2

GameModes == {"classic", "chaos"}

\* the inputs a frame can read
FrameInputs ==
  { NoActions,
    [NoActions EXCEPT !.rotateCW = TRUE, !.hardDrop = TRUE],
    [NoActions EXCEPT !.moveLeft = TRUE] }

tickVars == <<newState, events, actions, pc>>

\* the constructed Game showing the main menu
InitChaos ==
  /\ \E current \in createBag, next \in createBag :
       state = createGameState(current, next)
  /\ newState = Null
  /\ events = << >>
  /\ actions = NoActions
  /\ pc = "idle"
  /\ appPhase = "menu"
  /\ running = FALSE
  /\ countdown = FALSE
  /\ now = 0
  /\ ChaosManagerInit
  /\ session = 0
  /\ lastStart = Null
  /\ accumulator = 0
  /\ InputManagerInit
  /\ drawn = << >>
  /\ previews = << >>
  /\ NameEntryInit

\* Game.startGameWithMode, called by the menu
StartGameWithMode ==
  /\ pc = "idle"
  /\ appPhase = "menu"
  /\ session < MaxSessions
  /\ appPhase' = "playing"
  /\ \E current \in createBag, next \in createBag :
       state' = createGameState(current, next)
  /\ \E mode \in GameModes :
       IF mode = "chaos"
       THEN /\ enabled' = TRUE
            /\ activeEvents' = << >>
            /\ lastEventTime' = now
            /\ \E cooldown \in randomCooldown : currentCooldown' = cooldown
       ELSE /\ enabled' = FALSE
            /\ activeEvents' = << >>
            /\ UNCHANGED <<lastEventTime, currentCooldown>>
  /\ countdown' = TRUE
  /\ session' = session + 1
  /\ ClearNameEntry
  /\ UNCHANGED <<tickVars, running, now, timeouts, lastStart, accumulator,
                 inputVars, bagVars, nameEntryShown>>

\* the countdown ends and calls Game.start
CountdownDone ==
  /\ pc = "idle"
  /\ countdown
  /\ countdown' = FALSE
  /\ IF running
     THEN UNCHANGED <<state, running, accumulator>>
     ELSE /\ \E fresh \in FreshFor(state.bag) : state' = startGame(state, fresh).state
          /\ running' = TRUE
          /\ accumulator' = 0
  /\ UNCHANGED <<tickVars, chaosVars, appPhase, now, session, lastStart,
                 inputVars, bagVars, nameEntryVars>>

\* variant: update triggers an event whether the cooldown has elapsed or not
ChaosUpdate_NoCooldown(currentTime) ==
  IF ~enabled \/ state.phase # "playing"
  THEN UNCHANGED chaosVars
  ELSE /\ activeEvents' = expireEvents(activeEvents, currentTime)
       /\ \E event \in selectRandomEvent, cooldown \in randomCooldown :
            /\ timeouts' = Append(timeouts, [type |-> event,
                                             due |-> currentTime + WarningMs,
                                             session |-> session])
            /\ lastEventTime' = currentTime
            /\ currentCooldown' = cooldown
       /\ UNCHANGED enabled

\* ChaosManager.update(currentTime, state), as far as it writes the manager
ChaosUpdate(currentTime) ==
  IF ~enabled \/ state.phase # "playing"
  THEN UNCHANGED chaosVars
  ELSE /\ activeEvents' = expireEvents(activeEvents, currentTime)
       /\ IF currentTime - lastEventTime >= currentCooldown
          THEN \E event \in selectRandomEvent, cooldown \in randomCooldown :
                 /\ timeouts' = Append(timeouts, [type |-> event,
                                                  due |-> currentTime + WarningMs,
                                                  session |-> session])
                 /\ lastEventTime' = currentTime
                 /\ currentCooldown' = cooldown
          ELSE UNCHANGED <<timeouts, lastEventTime, currentCooldown>>
       /\ UNCHANGED enabled

\* whether the wind drift interval has run out, asked only while wind blows
GustInputs(m) == IF m.windDirection # 0 THEN BOOLEAN ELSE {FALSE}

\* the modifiers ChaosManager.update(now, state) returns: the defaults when
\* the manager is disabled or the phase is not playing
updateModifiers ==
  IF ~enabled \/ state.phase # "playing"
  THEN chaosModifiers(<< >>)
  ELSE chaosModifiers(activeEvents')

\* fixedTimestep / gravityMultiplier, in thirds of a millisecond
effectiveTimestep(m) == (3 * DeltaMs) \div m.gravityMultiplier

\* Game.gameLoop: one frame, seen from the game state and the chaos
\* manager.  Whether the accumulator has reached the timestep, and whether
\* the wind drift interval has run out, depend on the frame times and are
\* inputs of the frame here; updateGame returns the state as it is when the
\* phase is not playing.
GameLoop ==
  /\ pc = "idle"
  /\ running
  /\ IF state.phase = "paused"
     THEN UNCHANGED <<state, chaosVars>>
     ELSE /\ ChaosUpdate(now)
          /\ \/ UNCHANGED state
             \/ /\ state.phase = "playing"
                /\ state.timing.gameTime < MaxTicks * DeltaMs
                /\ \E input \in FrameInputs, gust \in GustInputs(updateModifiers),
                      fresh \in FreshFor(state.bag) :
                     state' = updateGame(state, DeltaMs,
                                         frameActions(input, updateModifiers, gust),
                                         fresh, fresh).state
  /\ UNCHANGED <<tickVars, hostVars>>

\* the random draws of an event's start: 1 + floor(random * 2) garbage rows
\* and a gap column for each, a wind direction; drawn only by the event
\* that reads them
GarbageCounts(eventType) == IF eventType = "garbageRain" THEN 1..2 ELSE {1}
GapPositions(eventType) ==
  IF eventType = "garbageRain" THEN 0..(BoardWidth - 1) ELSE {0}
WindDirections(eventType) == IF eventType = "windGust" THEN {-1, 1} ELSE {0}

\* the setTimeout callback of triggerRandomEvent
ChaosTimeout ==
  /\ pc = "idle"
  /\ timeouts # << >>
  /\ Head(timeouts).due <= now
  /\ timeouts' = Tail(timeouts)
  /\ \E garbageCount \in GarbageCounts(Head(timeouts).type) :
       \E gapPosition \in [0..(garbageCount - 1) -> GapPositions(Head(timeouts).type)] :
         state' = eventStart(state, Head(timeouts).type, garbageCount, gapPosition)
  /\ IF CHAOS_EVENTS[Head(timeouts).type].instant
     THEN UNCHANGED activeEvents
     ELSE \E direction \in WindDirections(Head(timeouts).type) :
            activeEvents' =
              Append(activeEvents,
                     [type |-> Head(timeouts).type,
                      startTime |-> now,
                      duration |-> CHAOS_EVENTS[Head(timeouts).type].duration,
                      direction |-> direction])
  /\ lastStart' = [type |-> Head(timeouts).type,
                   warned |-> Head(timeouts).session,
                   fired |-> session,
                   phase |-> state.phase,
                   enabled |-> enabled]
  /\ UNCHANGED <<tickVars, enabled, lastEventTime, currentCooldown,
                 appPhase, running, countdown, now, session, accumulator,
                 inputVars, bagVars, nameEntryVars>>

\* Game.togglePause
TogglePause ==
  /\ pc = "idle"
  /\ state.phase \in {"playing", "paused"}
  /\ state' = [state EXCEPT !.phase = IF state.phase = "playing" THEN "paused"
                                      ELSE "playing"]
  /\ UNCHANGED <<tickVars, chaosVars, hostVars>>

\* Game.restart
Restart ==
  /\ pc = "idle"
  /\ state.phase \in {"gameOver", "playing", "paused"}
  /\ session < MaxSessions
  /\ \E current \in createBag, next \in createBag :
       state' = startGame(resetGameState(current, next), << >>).state
  /\ session' = session + 1
  /\ ClearNameEntry
  /\ UNCHANGED <<tickVars, chaosVars, appPhase, running, countdown, now, lastStart,
                 accumulator,
                 inputVars, bagVars, nameEntryShown>>

\* Game.returnToMenu, from the game-over screen
ReturnToMenu ==
  /\ pc = "idle"
  /\ state.phase = "gameOver"
  /\ running' = FALSE
  /\ appPhase' = "menu"
  /\ ClearNameEntry
  /\ UNCHANGED <<state, tickVars, chaosVars, countdown, now, session, lastStart,
                 accumulator,
                 inputVars, bagVars, nameEntryShown>>

\* performance.now() advances; a timer that is due runs first
TimePasses ==
  /\ pc = "idle"
  /\ \E d \in {TimeStep, EventCooldown} :
       /\ now + d <= MaxNow
       /\ \A i \in 1..Len(timeouts) : now + d <= timeouts[i].due
       /\ \A timer \in nameEntryTimers : now + d <= timer.due
       /\ now' = now + d
  /\ UNCHANGED <<state, tickVars, chaosVars, appPhase, running, countdown,
                 session, lastStart, accumulator,
                 inputVars, bagVars, nameEntryVars>>

NextChaos ==
  \/ StartGameWithMode
  \/ CountdownDone
  \/ GameLoop
  \/ ChaosTimeout
  \/ TogglePause
  \/ Restart
  \/ ReturnToMenu
  \/ TimePasses

SpecChaos == InitChaos /\ [][NextChaos]_vars

\* ------------------------------------------------------------------------
\* The frame loop with its clock (Game.gameLoop).  The clock is read at the
\* frames only, so now stands for the currentTime of the latest frame, which
\* is Game.lastTime; the duration of a frame is its input.
\* ------------------------------------------------------------------------

\* deltaTime of a frame: half a timestep, one, two, and a stall longer than
\* maxAccumulator
FrameDurations == { DeltaMs \div 2, DeltaMs, 2 * DeltaMs, MaxAccumulator + DeltaMs }

\* gameLoop once the frame's time is added: one update if the accumulator
\* has reached the timestep.  updateGame returns the state as it is when
\* the phase is not playing; a playing game is followed for MaxTicks ticks.
FrameUpdate(accumulated, m) ==
  IF accumulated >= effectiveTimestep(m)
  THEN /\ state.phase = "playing" => state.timing.gameTime < MaxTicks * DeltaMs
       /\ \E input \in FrameInputs, gust \in GustInputs(m),
             fresh \in FreshFor(state.bag) :
            state' = updateGame(state, DeltaMs, frameActions(input, m, gust),
                                fresh, fresh).state
       /\ accumulator' = accumulated - effectiveTimestep(m)
  ELSE /\ UNCHANGED state
       /\ accumulator' = accumulated

\* Game.gameLoop: the frame deltaTime after the latest one
GameLoopFrame ==
  /\ pc = "idle"
  /\ running
  /\ \E deltaTime \in FrameDurations :
       /\ now + deltaTime <= MaxNow
       /\ now' = now + deltaTime
       /\ IF state.phase = "paused"
          THEN UNCHANGED <<state, chaosVars, accumulator>>
          ELSE /\ ChaosUpdate(now')
               /\ FrameUpdate(accumulator + 3 * Min(deltaTime, MaxAccumulator),
                              updateModifiers)
  /\ UNCHANGED <<tickVars, appPhase, running, countdown, session, lastStart,
                 inputVars, bagVars, nameEntryVars>>

\* a gravitySurge that has just started, in the manager of a chaos session
surgeStarted ==
  [type |-> "gravitySurge", startTime |-> EventCooldown + WarningMs,
   duration |-> CHAOS_EVENTS["gravitySurge"].duration, direction |-> 0]

\* Game.start() has run: a classic game at time 0, or a chaos game at the
\* start of its first gravitySurge
InitLoop ==
  /\ \E current \in createBag, next \in createBag :
       state = startGame(createGameState(current, next), << >>).state
  /\ newState = Null
  /\ events = << >>
  /\ actions = NoActions
  /\ pc = "idle"
  /\ appPhase = "playing"
  /\ running = TRUE
  /\ countdown = FALSE
  /\ accumulator = 0
  /\ InputManagerInit
  /\ drawn = << >>
  /\ previews = << >>
  /\ NameEntryInit
  /\ session = 1
  /\ timeouts = << >>
  /\ currentCooldown = EventCooldown
  /\ \/ /\ now = 0
        /\ enabled = FALSE
        /\ activeEvents = << >>
        /\ lastEventTime = 0
        /\ lastStart = Null
     \/ /\ now = surgeStarted.startTime
        /\ enabled = TRUE
        /\ activeEvents = << surgeStarted >>
        /\ lastEventTime = EventCooldown
        /\ lastStart = [type |-> "gravitySurge", warned |-> 1, fired |-> 1,
                        phase |-> "playing", enabled |-> TRUE]

NextLoop ==
  \/ GameLoopFrame
  \/ TogglePause

SpecLoop == InitLoop /\ [][NextLoop]_vars

\* ------------------------------------------------------------------------
\* Boards and their filled rows
\* ------------------------------------------------------------------------

\* the cells of the visible rows
VisibleCells == (0..(BoardWidth - 1)) \X (0..(BoardHeight - 1))

\* a board with the given cells occupied, garbage and plain cells alternating
boardOf(cells) ==
  [k \in cells |-> IF (k[1] + k[2]) % 2 = 0 THEN "garbage" ELSE "none"]

\* a running game in state s, between two ticks
InitWith(s) ==
  /\ state = s
  /\ newState = Null
  /\ events = << >>
  /\ actions = NoActions
  /\ pc = "idle"
  /\ appPhase = "playing"
  /\ running = TRUE
  /\ countdown = FALSE
  /\ now = 0
  /\ ChaosManagerInit
  /\ session = 1
  /\ lastStart = Null
  /\ accumulator = 0
  /\ InputManagerInit
  /\ drawn = << >>
  /\ previews = << s.bag.preview >>
  /\ NameEntryInit

\* a game whose board holds any set of cells of the visible rows
InitBoard ==
  \E cells \in SUBSET VisibleCells, current \in createBag :
    InitWith([startGame(createGameState(current, current), << >>).state
                EXCEPT !.board = boardOf(cells), !.activePiece = Null])

\* processLock's clearing of the filled rows of a board
ClearFilledRows ==
  /\ pc = "idle"
  /\ newState' = [state EXCEPT !.board = clearRows(state.board, getFilledRows(state.board))]
  /\ pc' = "cleared"
  /\ UNCHANGED <<state, events, actions, chaosVars, hostVars>>

NextBoard ==
  \/ ClearFilledRows

SpecBoard == InitBoard /\ [][NextBoard]_vars

\* ------------------------------------------------------------------------
\* Mid-game states one piece short of clearing the visible rows
\* ------------------------------------------------------------------------

\* every column but one is filled up to the top visible row, with or without
\* a cell left hanging above the spawn row, which outlasts the clear
tetrisBoards ==
  { [ k \in { <<x, y>> \in (0..(BoardWidth - 1)) \X (0..(BoardHeight + 1)) :
                \/ x # gap /\ y < BoardHeight
                \/ y = BoardHeight + 1 /\ x \in top } |-> "none" ] :
      gap \in 0..(BoardWidth - 1), top \in { {}, {0}, {BoardWidth - 1} } }

\* the heat left by earlier clears, in millionths: nearly cold, nearly full
HeatLevels == {10000, 900000}

InitScore ==
  \E b \in tetrisBoards, type \in TetrominoTypes, combo \in comboStates,
     heat \in HeatLevels :
    /\ spawnPiece(b, type) # Null
    /\ InitWith([midGameState(b, type, combo, (MaxTicks - 1) * DeltaMs)
                   EXCEPT !.streak.heatLevel = heat, !.streak.peakHeat = heat])

SpecScore == InitScore /\ [][Next]_vars

\* ------------------------------------------------------------------------
\* T pieces and the cells at their corners
\* ------------------------------------------------------------------------

\* the centres of the T piece, the kick indices of a rotation
TSpinCentres == { P(x, y) : x \in 0..(BoardWidth - 1), y \in 0..1 }
KickIndices == 0..4

\* the four cells diagonal to a centre
diagonalCells(centre) ==
  { <<centre.x + dx, centre.y + dy>> : dx \in {-1, 1}, dy \in {-1, 1} }

\* a T piece in any rotation at any centre where it fits, with any of the
\* cells at its corners occupied
InitTSpin ==
  \E centre \in TSpinCentres, rotation \in 0..3 :
  \E cells \in SUBSET diagonalCells(centre) :
    /\ \A c \in cells : isValidPosition(boardOf(cells), c[1], c[2])
    /\ canPlacePiece(boardOf(cells), "T", centre, rotation)
    /\ InitWith([midGameState(boardOf(cells), "T", [comboCount |-> 0, backToBack |-> 0, backToBackActive |-> FALSE,
                                  perfectClears |-> 0], 0)
                   EXCEPT !.activePiece.position = centre,
                          !.activePiece.rotation = rotation])

\* detectTSpin applied to the board and the piece, as processLock calls it
DetectTSpin ==
  /\ pc = "idle"
  /\ \E wasWallKick \in BOOLEAN, kickIndex \in KickIndices :
       newState' = [tSpin |-> detectTSpin(state.board, state.activePiece,
                                          wasWallKick, kickIndex),
                    wasWallKick |-> wasWallKick,
                    kickIndex |-> kickIndex]
  /\ pc' = "detected"
  /\ UNCHANGED <<state, events, actions, chaosVars, hostVars>>

NextTSpin ==
  \/ DetectTSpin

SpecTSpin == InitTSpin /\ [][NextTSpin]_vars

\* ------------------------------------------------------------------------
\* The piece bag and its preview
\* ------------------------------------------------------------------------

\* the preview counts of createPieceBag and the draws of one run
PreviewCounts == 1..7
MaxDraws == 15

\* createPieceBag(previewCount) in a game about to draw
InitBag ==
  \E current \in createBag, next \in createBag, previewCount \in PreviewCounts :
    InitWith([startGame(createGameState(current, current), << >>).state
                EXCEPT !.bag = createPieceBag(current, next, previewCount),
                       !.activePiece = Null])

\* the bag after a draw and the draw's record in the history
DrawInto(result) ==
  /\ state' = [state EXCEPT !.bag = result.newBag]
  /\ drawn' = Append(drawn, result.piece)
  /\ previews' = Append(previews, result.newBag.preview)

\* getNextPiece, as spawnPiece and the first hold call it
DrawNext ==
  /\ pc = "idle"
  /\ Len(drawn) < MaxDraws
  /\ \E fresh \in FreshFor(state.bag) : DrawInto(getNextPiece(state.bag, fresh))
  /\ UNCHANGED <<tickVars, chaosVars, appPhase, running, countdown, now, session,
                 lastStart, accumulator, inputVars, nameEntryVars>>

NextBag ==
  \/ DrawNext

SpecBag == InitBag /\ [][NextBag]_vars

\* ------------------------------------------------------------------------
\* InputManager
\* ------------------------------------------------------------------------

\* DEFAULT_KEY_BINDINGS, the game actions
KeyBindings ==
  [moveLeft  |-> {"ArrowLeft", "KeyA"},
   moveRight |-> {"ArrowRight", "KeyD"},
   softDrop  |-> {"ArrowDown", "KeyS"},
   hardDrop  |-> {"Space"},
   rotateCW  |-> {"ArrowUp", "KeyX"},
   rotateCCW |-> {"KeyZ", "ControlLeft", "ControlRight"},
   rotate180 |-> {"KeyW"},
   hold      |-> {"KeyC", "ShiftLeft", "ShiftRight"}]

\* DEFAULT_INPUT_CONFIG
Das == 167
Arr == 33

\* the keys of the keyboard events, the presses of one trigger action, the
\* time a direction is held and the time between two updates
Keys == {"ArrowUp", "KeyX", "Space", "ArrowLeft", "ArrowRight", "ArrowDown"}
MaxPresses == 2
MaxHeld == DeltaMs
UpdateSteps == {DeltaMs}

isDown(keys) == keys \cap keysDown # {}

\* the trigger actions a key is bound to
boundTriggers(key) == {a \in TriggerActions : key \in KeyBindings[a]}

\* update's DAS branch of a held direction that is already charging
dasCharging(time, charged, lastMove, deltaMs) ==
  [move |-> charged /\ (Arr = 0 \/ lastMove + deltaMs >= Arr),
   das |-> [charging |-> TRUE, charged |-> charged, time |-> time],
   lastMoveTime |-> IF charged /\ Arr # 0
                    THEN (IF lastMove + deltaMs >= Arr THEN 0 ELSE lastMove + deltaMs)
                    ELSE lastMove]

\* update's DAS branch of a held direction
dasHeld(das, lastMove, deltaMs) ==
  IF ~das.charging
  THEN [move |-> TRUE, das |-> [charging |-> TRUE, charged |-> FALSE, time |-> 0],
        lastMoveTime |-> lastMove]
  ELSE dasCharging(das.time + deltaMs, das.charged \/ das.time + deltaMs >= Das,
                   lastMove, deltaMs)

\* InputManager.update(deltaMs): the queued trigger actions are consumed,
\* soft drop follows the held key, left and right go through DAS/ARR
InputUpdate ==
  /\ pc = "idle"
  /\ \E deltaMs \in UpdateSteps :
       /\ dasLeft.time + deltaMs <= MaxHeld
       /\ dasRight.time + deltaMs <= MaxHeld
       /\ LET leftHeld == isDown(KeyBindings.moveLeft)
              rightHeld == isDown(KeyBindings.moveRight)
              left == dasHeld(dasLeft, lastMoveTime, deltaMs)
              right == dasHeld(dasRight, lastMoveTime, deltaMs)
          IN  /\ actions' = [moveLeft  |-> leftHeld /\ ~rightHeld /\ left.move,
                             moveRight |-> rightHeld /\ ~leftHeld /\ right.move,
                             softDrop  |-> isDown(KeyBindings.softDrop),
                             hardDrop  |-> actionQueue["hardDrop"],
                             rotateCW  |-> actionQueue["rotateCW"],
                             rotateCCW |-> actionQueue["rotateCCW"],
                             rotate180 |-> actionQueue["rotate180"],
                             hold      |-> actionQueue["hold"]]
              /\ dasLeft' = IF leftHeld /\ ~rightHeld THEN left.das ELSE NoDas
              /\ dasRight' = IF rightHeld /\ ~leftHeld THEN right.das ELSE NoDas
              /\ lastMoveTime' = IF leftHeld /\ ~rightHeld THEN left.lastMoveTime
                                 ELSE IF rightHeld /\ ~leftHeld THEN right.lastMoveTime
                                 ELSE 0
  /\ delivered' = [a \in TriggerActions |->
                     IF actionQueue[a] THEN delivered[a] + 1 ELSE delivered[a]]
  /\ actionQueue' = [a \in TriggerActions |-> FALSE]
  /\ UNCHANGED <<state, newState, events, pc, chaosVars, appPhase, running, countdown,
                 now, session, lastStart, accumulator, keysDown, pressed, bagVars, nameEntryVars>>

\* InputManager.handleKeyDown: a key that is not yet down is recorded and
\* queues the trigger actions it is bound to
HandleKeyDown ==
  \E key \in Keys :
    /\ IF key \notin keysDown
       THEN /\ \A a \in boundTriggers(key) : pressed[a] < MaxPresses
            /\ keysDown' = keysDown \cup {key}
            /\ actionQueue' = [a \in TriggerActions |->
                                 actionQueue[a] \/ a \in boundTriggers(key)]
            /\ pressed' = [a \in TriggerActions |->
                             IF a \in boundTriggers(key) THEN pressed[a] + 1
                             ELSE pressed[a]]
       ELSE UNCHANGED <<keysDown, actionQueue, pressed>>
    /\ UNCHANGED <<gameVars, chaosVars, appPhase, running, countdown, now, session,
                   lastStart, accumulator, dasLeft, dasRight, lastMoveTime, delivered, bagVars, nameEntryVars>>

\* InputManager.handleKeyUp
HandleKeyUp ==
  \E key \in Keys :
    /\ keysDown' = keysDown \ {key}
    /\ UNCHANGED <<gameVars, chaosVars, appPhase, running, countdown, now, session,
                   lastStart, accumulator, actionQueue, dasLeft, dasRight,
                   lastMoveTime, pressed, delivered, bagVars, nameEntryVars>>

\* InputManager.handleBlur
HandleBlur ==
  /\ keysDown' = {}
  /\ dasLeft' = NoDas
  /\ dasRight' = NoDas
  /\ actionQueue' = [a \in TriggerActions |-> FALSE]
  /\ UNCHANGED <<gameVars, chaosVars, appPhase, running, countdown, now, session,
                 lastStart, accumulator, lastMoveTime, pressed, delivered, bagVars, nameEntryVars>>

\* the constructed Game, its two bags shuffled alike
InitInput ==
  /\ InitChaos
  /\ state.bag.current = state.bag.next

NextInput ==
  \/ InputUpdate
  \/ HandleKeyDown
  \/ HandleKeyUp
  \/ HandleBlur

SpecInput == InitInput /\ [][NextInput]_vars

\* ------------------------------------------------------------------------
\* T pieces under and over a roof: boards with an overhang, where a rotation
\* needs the later offsets of its kick table
\* ------------------------------------------------------------------------

RoofRow == 2

\* row RoofRow filled but for one column, over an empty floor or a floor with
\* its left corner cell occupied
roofBoards ==
  { boardOf({ <<x, RoofRow>> : x \in (0..(BoardWidth - 1)) \ {gap} } \cup floor) :
      gap \in 0..(BoardWidth - 1), floor \in { {}, {<<0, 0>>} } }

\* three rows filled but for the slot of an upright T: one column of the
\* three rows and the cell beside its middle
slotBoards ==
  { boardOf({ c \in (0..(BoardWidth - 1)) \X (0..2) :
                c[1] # x /\ ~(c[2] = 1 /\ c[1] = x + side) }) :
      x \in 0..(BoardWidth - 1), side \in {-1, 1} }

\* a T piece in any rotation wherever it fits on such a board, one tick
\* before the end of the time modelled
InitKick ==
  \E b \in roofBoards \cup slotBoards, x \in 0..(BoardWidth - 1), y \in 0..BoardHeight,
     rotation \in 0..3 :
    /\ canPlacePiece(b, "T", P(x, y), rotation)
    /\ InitWith([midGameState(b, "T", [comboCount |-> 0, backToBack |-> 0,
                                      backToBackActive |-> FALSE,
                                      perfectClears |-> 0],
                              (MaxTicks - 1) * DeltaMs)
                   EXCEPT !.activePiece =
                            updateGhostY(b, [spawnPiece(createBoard, "T") EXCEPT
                                               !.position = P(x, y),
                                               !.rotation = rotation])])

SpecKick == InitKick /\ [][Next]_vars

\* ------------------------------------------------------------------------
\* A quarter turn and the turn back, on boards with cells in the two lowest
\* rows, for every piece wherever it fits
\* ------------------------------------------------------------------------

\* the rows that hold cells, the rows and columns of the piece's position
\* (the shapes of the I reach one cell left of and below their position)
LowCells == (0..(BoardWidth - 1)) \X (0..1)
PieceColumns == (-1)..(BoardWidth - 1)
PieceRows == (-1)..3

InitTurn ==
  \E cells \in SUBSET LowCells, type \in TetrominoTypes, rotation \in 0..3 :
  \E x \in PieceColumns, y \in PieceRows :
    /\ canPlacePiece(boardOf(cells), type, P(x, y), rotation)
    /\ InitWith([midGameState(boardOf(cells), type,
                              [comboCount |-> 0, backToBack |-> 0,
                               backToBackActive |-> FALSE, perfectClears |-> 0], 0)
                   EXCEPT !.activePiece =
                            updateGhostY(boardOf(cells),
                                         [spawnPiece(createBoard, type) EXCEPT
                                            !.position = P(x, y),
                                            !.rotation = rotation])])

opposite(direction) == IF direction = "cw" THEN "ccw" ELSE "cw"

\* the turn back, tried when the first turn succeeded
turnBack(b, first, direction) ==
  IF first.success THEN tryRotate(b, first.newPiece, opposite(direction))
  ELSE RotationFailed

\* tryRotate by a quarter turn, then tryRotate the other way on its result
TurnAndBack ==
  /\ pc = "idle"
  /\ \E direction \in {"cw", "ccw"} :
       newState' = [first |-> tryRotate(state.board, state.activePiece, direction),
                    back |-> turnBack(state.board,
                                      tryRotate(state.board, state.activePiece, direction),
                                      direction),
                    direction |-> direction]
  /\ pc' = "turned"
  /\ UNCHANGED <<state, events, actions, chaosVars, hostVars>>

NextTurn ==
  \/ TurnAndBack

SpecTurn == InitTurn /\ [][NextTurn]_vars

\* ------------------------------------------------------------------------
\* A chaos game whose instant event is due: the start callback changes the
\* board between two ticks, under the active piece
\* ------------------------------------------------------------------------

\* stacks two cells high in some of the columns, garbage and plain cells
\* alternating
garbageBoards ==
  { boardOf({ c \in VisibleCells : c[2] < 2 /\ c[1] \in columns }) :
      columns \in { {0}, {1, 2}, {0, 1, 3} } }

InstantEvents == { e \in DOMAIN CHAOS_EVENTS : CHAOS_EVENTS[e].instant }

\* the warning of an instant event was shown WarningMs ago; the piece is as
\* it was spawned
InitGarbage ==
  /\ \E b \in garbageBoards, type \in TetrominoTypes :
       /\ spawnPiece(b, type) # Null
       /\ state = midGameState(b, type,
                               [comboCount |-> 0, backToBack |-> 0,
                                backToBackActive |-> FALSE, perfectClears |-> 0],
                               (MaxTicks - 1) * DeltaMs)
  /\ newState = Null
  /\ events = << >>
  /\ actions = NoActions
  /\ pc = "idle"
  /\ appPhase = "playing"
  /\ running = TRUE
  /\ countdown = FALSE
  /\ now = EventCooldown + WarningMs
  /\ enabled = TRUE
  /\ activeEvents = << >>
  /\ lastEventTime = EventCooldown
  /\ currentCooldown = EventCooldown
  /\ \E event \in InstantEvents :
       timeouts = << [type |-> event, due |-> EventCooldown + WarningMs,
                      session |-> 1] >>
  /\ session = 1
  /\ lastStart = Null
  /\ accumulator = 0
  /\ InputManagerInit
  /\ drawn = << >>
  /\ previews = << >>
  /\ NameEntryInit

NextGarbage ==
  \/ ChaosTimeout
  \/ Next

SpecGarbage == InitGarbage /\ [][NextGarbage]_vars

\* ------------------------------------------------------------------------
\* The high-score name entry after a game over (Game.ts, the game-over
\* listener): the dialog is shown by a timer the listener sets, which
\* restart, returnToMenu and startGameWithMode clear.
\* ------------------------------------------------------------------------

\* the delay of the name-entry timer, in ms
NameEntryDelay == 1500

\* the game-over listener, called by emitAll for the game-over event of a
\* frame: whether the score qualifies for the leaderboard is read from the
\* storage and an input here
onGameOver(e, qualifies) ==
  IF qualifies
  THEN LET timer == [game |-> session, score |-> e.finalScore,
                     due |-> now + NameEntryDelay]
       IN  /\ pendingHighScore' = [score |-> e.finalScore,
                                   level |-> state'.score.level,
                                   lines |-> state'.score.linesCleared]
           /\ nameEntryTimeoutId' = timer
           /\ nameEntryTimers' = nameEntryTimers \cup {timer}
  ELSE UNCHANGED <<nameEntryTimeoutId, pendingHighScore, nameEntryTimers>>

\* eventBus.emitAll(result.events), as far as a listener writes the Game
emitAll(evs) ==
  IF \E i \in 1..Len(evs) : evs[i].type = "game-over"
  THEN \E qualifies \in BOOLEAN :
         onGameOver(evs[CHOOSE i \in 1..Len(evs) : evs[i].type = "game-over"],
                    qualifies)
  ELSE UNCHANGED <<nameEntryTimeoutId, pendingHighScore, nameEntryTimers>>

\* Game.gameLoop: one frame with the listeners of the events it emits.
\* Whether the accumulator has reached the timestep is an input of the frame.
GameLoopEmit ==
  /\ pc = "idle"
  /\ running
  /\ IF state.phase = "paused"
     THEN UNCHANGED <<state, chaosVars, nameEntryTimeoutId, pendingHighScore,
                      nameEntryTimers>>
     ELSE /\ ChaosUpdate(now)
          /\ \/ UNCHANGED <<state, nameEntryTimeoutId, pendingHighScore,
                            nameEntryTimers>>
             \/ /\ state.phase = "playing"
                /\ state.timing.gameTime < MaxTicks * DeltaMs
                /\ \E input \in FrameInputs, gust \in GustInputs(updateModifiers),
                      fresh \in FreshFor(state.bag) :
                     /\ state' = updateGame(state, DeltaMs,
                                            frameActions(input, updateModifiers, gust),
                                            fresh, fresh).state
                     /\ emitAll(updateGame(state, DeltaMs,
                                           frameActions(input, updateModifiers, gust),
                                           fresh, fresh).events)
  /\ UNCHANGED <<tickVars, appPhase, running, countdown, now, session, lastStart,
                 accumulator, inputVars, bagVars, nameEntryShown,
                 nameEntryCleared>>

\* the setTimeout callback of the game-over listener
NameEntryTimeout ==
  /\ pc = "idle"
  /\ \E timer \in nameEntryTimers :
       /\ timer.due <= now
       /\ nameEntryTimers' = nameEntryTimers \ {timer}
       /\ nameEntryShown' =
            IF state.phase = "gameOver" /\ pendingHighScore # Null
            THEN nameEntryShown \cup {[game |-> timer.game, score |-> timer.score,
                                       session |-> session, appPhase |-> appPhase]}
            ELSE nameEntryShown
  /\ nameEntryTimeoutId' = Null
  /\ UNCHANGED <<state, tickVars, chaosVars, appPhase, running, countdown, now,
                 session, lastStart, accumulator, inputVars, bagVars,
                 pendingHighScore, nameEntryCleared>>

\* Game.start() has run on a fresh classic game, late enough on the clock
\* for two more steps of it
InitOver ==
  /\ \E current \in createBag, next \in createBag :
       state = startGame(createGameState(current, next), << >>).state
  /\ newState = Null
  /\ events = << >>
  /\ actions = NoActions
  /\ pc = "idle"
  /\ appPhase = "playing"
  /\ running = TRUE
  /\ countdown = FALSE
  /\ now = MaxNow - 2 * TimeStep
  /\ ChaosManagerInit
  /\ session = 1
  /\ lastStart = Null
  /\ accumulator = 0
  /\ InputManagerInit
  /\ drawn = << >>
  /\ previews = << >>
  /\ NameEntryInit

NextOver ==
  \/ GameLoopEmit
  \/ NameEntryTimeout
  \/ Restart
  \/ ReturnToMenu
  \/ StartGameWithMode
  \/ CountdownDone
  \/ TimePasses

SpecOver == InitOver /\ [][NextOver]_vars

\* ------------------------------------------------------------------------
\* One call of tryRotate in each direction, on the boards and pieces of the
\* quarter turns above
\* ------------------------------------------------------------------------

RotationDirections == {"cw", "ccw", "180"}

\* tryRotate(board, piece, direction), its result kept with its direction
Rotate ==
  /\ pc = "idle"
  /\ \E direction \in RotationDirections :
       newState' = [result |-> tryRotate(state.board, state.activePiece, direction),
                    direction |-> direction]
  /\ pc' = "rotated"
  /\ UNCHANGED <<state, events, actions, chaosVars, hostVars>>

NextRotate ==
  \/ Rotate

SpecRotate == InitTurn /\ [][NextRotate]_vars

\* ------------------------------------------------------------------------
\* Ticks that keep arriving while one piece is active.  updateGame runs as a
\* whole; the run of a piece ends with the tick that locks it or swaps it
\* out.  The game clock and the count of soft-dropped cells grow with every
\* tick and are read by no step of updateGame before the lock: they are
\* kept at 0 here, so that the states of a piece are finitely many.
\* ------------------------------------------------------------------------

\* the inputs of a tick: a rotation, a move, a drop and the hold, in any
\* combination the else-if chains of updateGame tell apart
PieceInputs ==
  { [NoActions EXCEPT !.rotateCW = (r = 1), !.rotateCCW = (r = 2),
                      !.rotate180 = (r = 3),
                      !.moveLeft = (m = 1), !.moveRight = (m = 2),
                      !.softDrop = (d = 1), !.hardDrop = (d = 2),
                      !.hold = h] :
      r \in 0..3, m \in 0..2, d \in 0..2, h \in BOOLEAN }

\* the state without its two growing counters
withoutCounters(s) ==
  IF s.activePiece = Null THEN [s EXCEPT !.timing.gameTime = 0]
  ELSE [s EXCEPT !.timing.gameTime = 0, !.activePiece.softDropCells = 0]

\* the tick locked the active piece or swapped it out
PieceSettled(evs) ==
  \E i \in 1..Len(evs) : evs[i].type \in {"piece-lock", "piece-hold"}

\* a new game on the empty board, any piece type active
InitPiece ==
  \E type \in TetrominoTypes :
    InitWith(midGameState(createBoard, type,
                          [comboCount |-> 0, backToBack |-> 0,
                           backToBackActive |-> FALSE, perfectClears |-> 0], 0))

\* updateGame(state, deltaMs, actions, config) for any inputs
UpdateTick ==
  /\ pc = "idle"
  /\ state.phase = "playing"
  /\ \E input \in PieceInputs, fresh \in FreshFor(state.bag) :
       /\ Set(updateGame(state, DeltaMs, input, fresh, fresh))
       /\ actions' = input
  /\ pc' = "return"
  /\ UNCHANGED <<state, chaosVars, hostVars>>

\* Game.gameLoop: this.state = result.state; the run ends when the piece
\* was settled
CommitTick ==
  /\ pc = "return"
  /\ state' = withoutCounters(newState)
  /\ newState' = Null
  /\ events' = << >>
  /\ actions' = NoActions
  /\ pc' = IF PieceSettled(events) THEN "settled" ELSE "idle"
  /\ UNCHANGED <<chaosVars, hostVars>>

NextPiece ==
  \/ UpdateTick
  \/ CommitTick

\* a step of the loop is possible: it leaves pc for another value
TickArrives ==
  /\ pc # "settled"
  /\ pc = "idle" => state.phase = "playing"
  /\ pc' \in {"idle", "return", "settled"} \ {pc}

\* ticks keep arriving while the phase is playing (requestAnimationFrame
\* calls gameLoop again after every frame)
SpecPiece == InitPiece /\ [][NextPiece]_vars /\ WF_pc(TickArrives)

\* ------------------------------------------------------------------------
\* The operations that write the board: a tick of updateGame, the two board
\* callbacks of the chaos events and insertGarbageRows, on stacks without a
\* filled row.  One garbage operation at most, then one tick.
\* ------------------------------------------------------------------------

\* the gapColumn arguments: the columns and the numbers next to them
GapColumns == (-1)..BoardWidth

InitRows ==
  \E b \in stackBoards \cup garbageBoards, type \in TetrominoTypes :
    /\ spawnPiece(b, type) # Null
    /\ InitWith(midGameState(b, type,
                             [comboCount |-> 0, backToBack |-> 0,
                              backToBackActive |-> FALSE, perfectClears |-> 0],
                             (MaxTicks - 1) * DeltaMs))

\* the start callback of garbageRain or bonusClear (Game.setupChaosCallbacks)
BoardCallback ==
  /\ pc = "idle"
  /\ \E eventType \in InstantEvents :
       \E garbageCount \in GarbageCounts(eventType) :
         \E gapPosition \in [0..(garbageCount - 1) -> GapPositions(eventType)] :
           state' = eventStart(state, eventType, garbageCount, gapPosition)
  /\ pc' = "garbage"
  /\ UNCHANGED <<newState, events, actions, chaosVars, hostVars>>

\* insertGarbageRows(board, count, gapColumn) on the board of the game
InsertGarbage ==
  /\ pc = "idle"
  /\ \E count \in 1..2, gapColumn \in GapColumns :
       state' = [state EXCEPT !.board = insertGarbageRows(state.board, count, gapColumn)]
  /\ pc' = "garbage"
  /\ UNCHANGED <<newState, events, actions, chaosVars, hostVars>>

\* updateGame on the board as it is, or as the garbage operation left it
TickRows ==
  /\ pc \in {"idle", "garbage"}
  /\ state.phase = "playing"
  /\ \E input \in PieceInputs, fresh \in FreshFor(state.bag) :
       /\ Set(updateGame(state, DeltaMs, input, fresh, fresh))
       /\ actions' = input
  /\ pc' = "return"
  /\ UNCHANGED <<state, chaosVars, hostVars>>

NextRows ==
  \/ BoardCallback
  \/ InsertGarbage
  \/ TickRows

SpecRows == InitRows /\ [][NextRows]_vars

\* ------------------------------------------------------------------------
\* A game created with any configured start level, played step by step.
\* ------------------------------------------------------------------------

\* the values of config.startLevel
StartLevels == 1..MaxLevel

InitLevel ==
  \E current \in createBag, startLevel \in StartLevels :
    InitWith(startGame(createGameStateAt(current, current, startLevel), << >>).state)

SpecLevel == InitLevel /\ [][Next]_vars

\* ------------------------------------------------------------------------
\* Holds with the spawn cells partly taken: one cell in the two rows above
\* the visible board, any active piece as spawned, any piece or none stored.
\* ------------------------------------------------------------------------

spawnBoards ==
  { createBoard } \cup
  { boardOf({ <<x, y>> }) : x \in 0..(BoardWidth - 1),
                            y \in BoardHeight..(BoardHeight + 1) }

InitHold ==
  \E b \in spawnBoards, type \in TetrominoTypes, stored \in TetrominoTypes \cup {NoType} :
    /\ spawnPiece(b, type) # Null
    /\ InitWith([midGameState(b, type,
                              [comboCount |-> 0, backToBack |-> 0,
                               backToBackActive |-> FALSE, perfectClears |-> 0],
                              (MaxTicks - 1) * DeltaMs)
                   EXCEPT !.hold = [piece |-> stored, available |-> TRUE]])

SpecHold == InitHold /\ [][Next]_vars

\* ------------------------------------------------------------------------
\* The ticks of a game with the pause key and the restart: updateGame keeps
\* being called after the game is over.
\* ------------------------------------------------------------------------

NextEnd ==
  \/ Next
  \/ TogglePause
  \/ Restart

SpecEnd == Init /\ [][NextEnd]_vars

\* ------------------------------------------------------------------------
\* Leaderboard (Leaderboard.ts): the entries of one mode, and
\* Game.onHighScoreNameSubmit.  An entry is its score and the number of the
\* submission that made it, which stands for the name and the date.
\* ------------------------------------------------------------------------

MaxEntriesPerMode == 3
MaxScore == 3
MaxSubmits == 5

\* e put behind the entries that are not below it: what the stable sort by
\* (a, b) => b.score - a.score does with an entry pushed to a sorted list
RECURSIVE sortedInsert(_, _)
sortedInsert(entries, e) ==
  IF entries = << >> THEN << e >>
  ELSE IF Head(entries).score >= e.score
       THEN << Head(entries) >> \o sortedInsert(Tail(entries), e)
       ELSE << e >> \o entries

\* entries.sort((a, b) => b.score - a.score)
RECURSIVE sortEntries(_)
sortEntries(entries) ==
  IF entries = << >> THEN << >>
  ELSE sortedInsert(sortEntries(SubSeq(entries, 1, Len(entries) - 1)),
                    entries[Len(entries)])

qualifiesForLeaderboard(score, entries) ==
  IF score <= 0 THEN FALSE
  ELSE IF Len(entries) < MaxEntriesPerMode THEN TRUE
  ELSE score > entries[Len(entries)].score

\* the first index whose entry is below score, from index i on
RECURSIVE rankFrom(_, _, _)
rankFrom(score, entries, i) ==
  IF i > Len(entries) THEN Len(entries) + 1
  ELSE IF score > entries[i].score THEN i
  ELSE rankFrom(score, entries, i + 1)

getRank(score, entries) ==
  IF ~qualifiesForLeaderboard(score, entries) THEN -1
  ELSE rankFrom(score, entries, 1)

\* the list after addEntry(entry)
addEntry(entries, entry) ==
  IF ~qualifiesForLeaderboard(entry.score, entries) THEN entries
  ELSE Take(sortEntries(Append(entries, entry)), MaxEntriesPerMode)

\* data.entries[mode] || []: empty until the first submission
getEntries == IF newState = Null THEN << >> ELSE newState.entries

submissions == IF newState = Null THEN 0 ELSE newState.entry.id

\* what onHighScoreNameSubmit does with the entry: added, and the rank it
\* hands to showLeaderboard; rankBefore is getRank on the list before the add
submitted(entries, entry) ==
  [entries |-> addEntry(entries, entry),
   entry |-> entry,
   added |-> qualifiesForLeaderboard(entry.score, entries),
   rankBefore |-> getRank(entry.score, entries),
   rank |-> getRank(entry.score, addEntry(entries, entry))]

\* Game.onHighScoreNameSubmit with any pending score
onHighScoreNameSubmit ==
  /\ pc \in {"idle", "submitted"}
  /\ submissions < MaxSubmits
  /\ \E score \in 0..MaxScore :
       newState' = submitted(getEntries, [score |-> score, id |-> submissions + 1])
  /\ pc' = "submitted"
  /\ UNCHANGED <<state, events, actions, chaosVars, hostVars>>

NextLeaderboard ==
  \/ onHighScoreNameSubmit

SpecLeaderboard == Init /\ [][NextLeaderboard]_vars

\* ------------------------------------------------------------------------
\* Properties
\* ------------------------------------------------------------------------

HasEvent(evs, t) == \E i \in 1..Len(evs) : evs[i].type = t

InBounds(x, y) == x >= 0 /\ x < BoardWidth /\ y >= 0 /\ y < BoardHeight + BufferRows

BoardInBounds(s) == \A k \in DOMAIN s.board : InBounds(k[1], k[2])

ShapeCells(type, rotation, position) ==
  { <<position.x + TETROMINO_SHAPES[type][rotation + 1][i].x,
      position.y + TETROMINO_SHAPES[type][rotation + 1][i].y>> : i \in 1..4 }

PieceCells(piece) == ShapeCells(piece.type, piece.rotation, piece.position)

Placeable(b, type, rotation, position) ==
  \A c \in ShapeCells(type, rotation, position) :
    InBounds(c[1], c[2]) /\ c \notin DOMAIN b

PieceClear(s) ==
  s.activePiece # Null =>
    /\ Cardinality(PieceCells(s.activePiece)) = 4
    /\ Placeable(s.board, s.activePiece.type, s.activePiece.rotation,
                 s.activePiece.position)

\* C1: in every state reached from startGame by updateGame ticks with any
\* action flags, every board cell is inside 0 <= x < width, 0 <= y < height +
\* bufferRows, and the four blocks of an active piece are in bounds and on
\* cells the board does not occupy.  It is checked on the state between the
\* ticks and on the working state at every step of a tick.
C1_BoardAndPieceValid ==
  /\ BoardInBounds(state) /\ PieceClear(state)
  /\ pc # "idle" => BoardInBounds(newState) /\ PieceClear(newState)

\* a piece resting on cells that an earlier piece locked
C1_Witness ==
  /\ pc = "idle"
  /\ state.activePiece # Null
  /\ \E c \in PieceCells(state.activePiece) : <<c[1], c[2] - 1>> \in DOMAIN state.board

SpawnType(s) == Head(s.bag.current)

\* C2: under updateGame the phase leaves playing for gameOver only in a tick
\* that reaches the spawn with no active piece and with the next bag piece
\* not placeable at the spawn position, and that tick's events hold a
\* game-over event; nothing else ends the round, and no game-over event is
\* emitted otherwise.
C2_GameOverOnlyOnBlockOut ==
  /\ state.phase \in {"playing", "gameOver"}
  /\ pc # "idle" =>
       /\ newState.phase \in {"playing", "gameOver"}
       /\ state.phase = "gameOver" => newState = state /\ events = << >>
       /\ (state.phase = "playing" /\ newState.phase = "gameOver") =>
            /\ pc \in {"danger", "return"}
            /\ newState.activePiece = Null
            /\ ~Placeable(newState.board, SpawnType(newState), 0, spawnPosition)
            /\ HasEvent(events, "game-over")
       /\ HasEvent(events, "game-over") =>
            state.phase = "playing" /\ newState.phase = "gameOver"

\* the tick that ends the round
C2_Witness ==
  /\ pc = "return"
  /\ state.phase = "playing"
  /\ newState.phase = "gameOver"
  /\ HasEvent(events, "game-over")

\* the piece of s rests on the ground with a timer that the coming tick
\* would run out, and with resets left
LockPending(s) ==
  /\ s.activePiece # Null
  /\ ~Placeable(s.board, s.activePiece.type, s.activePiece.rotation,
                P(s.activePiece.position.x, s.activePiece.position.y - 1))
  /\ s.activePiece.lockDelay.remaining <= DeltaMs
  /\ s.activePiece.lockDelay.moveResets < s.activePiece.lockDelay.maxResets

MovedOrRotated(evs) ==
  \E i \in 1..Len(evs) :
    \/ evs[i].type = "piece-rotate"
    \/ evs[i].type = "piece-move" /\ evs[i].direction \in {"left", "right"}

\* C7 as stated: when a grounded piece's lock delay would expire in this tick
\* and a horizontal move or a rotation succeeds in the tick while resets are
\* left, the piece is not locked in the tick.  The statement is taken for
\* the ticks that request neither a hold nor a hard drop, where the lock
\* delay alone decides.
C7_LateMoveNeverLocks ==
  (pc = "return" /\ state.phase = "playing" /\ LockPending(state)
     /\ ~actions.hold /\ ~actions.hardDrop /\ MovedOrRotated(events))
    => ~HasEvent(events, "piece-lock")

\* the reset of the tick was applied to the piece that entered the tick
ResetApplied ==
  /\ ~actions.hold
  /\ newState.activePiece # Null
  /\ newState.activePiece.lockDelay.moveResets >
       state.activePiece.lockDelay.moveResets

\* C7, amended: when a grounded piece's lock delay would expire in this tick
\* and resets are left, and a move or a rotation of the tick succeeds and
\* leaves the piece on the ground, so that the reset is applied, and the
\* piece is not hard-dropped in the tick, then the lock-delay step of the
\* tick does not lock the piece.
C7_ResetCancelsLock ==
  [][ (pc = "lockDelay" /\ LockPending(state) /\ ResetApplied)
        => (newState'.activePiece # Null /\ ~HasEvent(events', "piece-lock")) ]_vars

\* a piece saved by the reset: the lock-delay step has run and the piece is
\* still active
C7_Witness ==
  /\ pc = "spawn"
  /\ LockPending(state)
  /\ state.activePiece.lockDelay.active
  /\ ResetApplied
  /\ MovedOrRotated(events)

Rotation(a) ==
  IF a.rotateCW THEN "cw" ELSE IF a.rotateCCW THEN "ccw"
  ELSE IF a.rotate180 THEN "180" ELSE "none"

Turned(rotation, direction) ==
  CASE direction = "cw" -> (rotation + 1) % 4
    [] direction = "ccw" -> (rotation + 3) % 4
    [] direction = "180" -> (rotation + 2) % 4
    [] OTHER -> rotation

\* the type a hold in state s brings in
Incoming(s) == IF s.hold.piece # NoType THEN s.hold.piece ELSE Head(s.bag.current)

HoldAndRotate ==
  /\ pc = "move"
  /\ actions.hold
  /\ Rotation(actions) # "none"
  /\ state.hold.available
  /\ state.activePiece # Null
  /\ Placeable(state.board, Incoming(state), 0, spawnPosition)

HoldCount(evs) == Cardinality({ i \in 1..Len(evs) : evs[i].type = "piece-hold" })

\* C9: between two locks at most one hold takes effect.  Inside a tick the
\* availability flag is true after a lock, else false after a hold that took
\* effect, else what it was when the tick began; a tick holds at most once;
\* and a hold request made while the flag is false leaves the active piece,
\* the hold slot and the bag as they were.
C9_OneHoldPerPiece ==
  pc \notin {"idle", "hold"} /\ state.phase = "playing" =>
    /\ HoldCount(events) <= 1
    /\ newState.hold.available =
         (IF HasEvent(events, "piece-lock") THEN TRUE
          ELSE IF HasEvent(events, "piece-hold") THEN FALSE
          ELSE state.hold.available)
    /\ HasEvent(events, "piece-hold") => state.hold.available
    /\ (pc = "rotate" /\ actions.hold /\ ~state.hold.available) =>
         /\ newState.activePiece = state.activePiece
         /\ newState.hold = state.hold
         /\ newState.bag = state.bag

\* a hold request refused because an earlier hold used the piece's one hold
C9_Witness ==
  /\ pc = "rotate"
  /\ actions.hold
  /\ ~state.hold.available
  /\ state.activePiece # Null
  /\ state.hold.piece # NoType

SwapHold ==
  /\ pc = "rotate"
  /\ actions.hold
  /\ state.hold.available
  /\ state.activePiece # Null
  /\ state.hold.piece # NoType
  /\ HasEvent(events, "piece-hold")

\* C10: a hold that swaps with a stored piece leaves the bag (current, next
\* and preview) unchanged, makes the stored type the active piece at the
\* spawn position with rotation 0, and stores the type that was active.
C10_SwapKeepsBag ==
  SwapHold =>
    /\ newState.bag = state.bag
    /\ newState.activePiece # Null
    /\ newState.activePiece.type = state.hold.piece
    /\ newState.activePiece.position = spawnPosition
    /\ newState.activePiece.rotation = 0
    /\ newState.hold.piece = state.activePiece.type

\* a swap between two different types
C10_Witness ==
  /\ SwapHold
  /\ state.hold.piece # state.activePiece.type
  /\ state.hold.piece # Head(state.bag.current)

\* the place of an event of a lock in the order of the lock's events
LockRank(t) ==
  CASE t = "hard-drop" -> 0
    [] t = "piece-lock" -> 1
    [] t = "lines-clear" -> 2
    [] t = "combo" -> 3
    [] t = "back-to-back" -> 4
    [] t = "perfect-clear" -> 5
    [] t = "level-up" -> 6
    [] t = "heat-change" -> 7
    [] OTHER -> -1

LockEvents(evs) == { i \in 1..Len(evs) : LockRank(evs[i].type) >= 0 }

\* C3: the events of a lock, by lock-delay expiry or by hard drop, stand in
\* the tick's event list in the order piece-lock, lines-clear, combo,
\* back-to-back, perfect-clear, level-up, heat-change, each at most once but
\* for one level-up per level gained; a hard-drop event comes before the
\* piece-lock event; and none of the others appears without a piece-lock.
C3_LockEventOrder ==
  pc # "idle" =>
    /\ \A i, j \in LockEvents(events) :
         i < j => \/ LockRank(events[i].type) < LockRank(events[j].type)
                  \/ events[i].type = "level-up" /\ events[j].type = "level-up"
    /\ \A i \in LockEvents(events) :
         (events[i].type # "piece-lock" /\ events[i].type # "hard-drop")
           => \E j \in 1..(i - 1) : events[j].type = "piece-lock"
    /\ \A i \in LockEvents(events) :
         events[i].type = "hard-drop"
           => i < Len(events) /\ events[i + 1].type = "piece-lock"

\* a hard-drop lock that emits every one of the events
C3_Witness ==
  /\ pc = "return"
  /\ \A t \in {"hard-drop", "piece-lock", "lines-clear", "combo", "back-to-back",
               "perfect-clear", "level-up", "heat-change"} : HasEvent(events, t)

\* a lock by lock-delay expiry that clears lines
C3_WitnessExpiry ==
  /\ pc = "return"
  /\ ~HasEvent(events, "hard-drop")
  /\ HasEvent(events, "lines-clear")
  /\ HasEvent(events, "combo")

\* C4: once ChaosManager.disable() has run and until the next enable(), no
\* event-start callback fires and the list of active events stays empty,
\* also when a warning's deferred start is still pending at the disable.
C4_DisableCancelsPending ==
  /\ ~enabled => activeEvents = << >>
  /\ lastStart # Null => lastStart.enabled

\* C5: a chaos warning issued in one session starts no event once
\* Game.restart, or Game.returnToMenu and a new start, has begun another
\* session: no start callback, no active-event record, no garbageRain or
\* bonusClear on the new session's board.
C5_WarningDiesWithSession ==
  lastStart # Null => lastStart.warned = lastStart.fired

\* C6: while the game phase is not playing (paused, gameOver, menu,
\* countdown) the chaos engine starts no event: no event-start callback, no
\* new active-event record, no garbageRain or bonusClear on the board.
C6_NoStartOutsidePlaying ==
  lastStart # Null => lastStart.phase = "playing"


\* C11: after every frame of Game.gameLoop the accumulator is at most
\* maxAccumulator, whatever the frame durations and the gravity multiplier.
C11_AccumulatorCapped == accumulator <= 3 * MaxAccumulator


\* C12: every press of a trigger key is answered by exactly one update()
\* result with its flag set: the results that carried the action so far, and
\* the one still queued, always add up to the presses so far.
C12_OneResultPerPress ==
  \A a \in TriggerActions :
    delivered[a] + (IF actionQueue[a] THEN 1 ELSE 0) = pressed[a]

\* the rows of rows that lie below row y
rowsBelow(rows, y) == Cardinality({ r \in rows : r < y })

\* C13: clearing the filled rows of an in-bounds board leaves no filled row,
\* removes exactly (cleared rows x width) cells, and moves every surviving
\* cell down within its column by the number of cleared rows below it.
C13_ClearRowsCompacts ==
  pc = "cleared" =>
    /\ getFilledRows(newState.board) = {}
    /\ Cardinality(DOMAIN newState.board)
         = Cardinality(DOMAIN state.board)
           - Cardinality(getFilledRows(state.board)) * BoardWidth
    /\ \A k \in DOMAIN state.board :
         k[2] \notin getFilledRows(state.board) =>
           /\ <<k[1], k[2] - rowsBelow(getFilledRows(state.board), k[2])>>
                \in DOMAIN newState.board
           /\ newState.board[<<k[1], k[2] - rowsBelow(getFilledRows(state.board), k[2])>>]
                = state.board[k]

\* two separate filled rows are cleared, with cells between and above them
C13_Witness ==
  /\ pc = "cleared"
  /\ getFilledRows(state.board) = {0, 2}
  /\ <<1, 1>> \in DOMAIN state.board
  /\ <<0, 3>> \in DOMAIN state.board
  /\ <<0, 1>> \in DOMAIN newState.board

\* draws 7k+1 .. 7k+7
drawGroup(k) == { drawn[7 * k + i] : i \in 1..7 }

\* C14: from createPieceBag on, draws 7k+1 .. 7k+7 of getNextPiece contain
\* each of the seven piece types exactly once, for every k >= 0.
C14_SevenBag ==
  \A k \in 0..(MaxDraws \div 7) :
    Len(drawn) >= 7 * k + 7 => drawGroup(k) = TetrominoTypes

\* two whole groups of seven have been drawn
C14_Witness == Len(drawn) = 14 /\ drawn[8] # drawn[1]

\* C15: after createPieceBag(N) and any draws, bag.preview has length N and
\* lists, in order, the next N pieces getNextPiece returns: the preview seen
\* after j-1 draws has the first preview's length and its i-th entry is draw
\* j-1+i, for every draw made since.
C15_PreviewIsNextDraws ==
  \A j \in 1..Len(previews) :
    /\ Len(previews[j]) = Len(previews[1])
    /\ \A i \in 1..Len(previews[j]) :
         j - 1 + i <= Len(drawn) => previews[j][i] = drawn[j - 1 + i]

\* a preview of seven pieces has been followed over two bag changes
C15_Witness ==
  /\ Len(drawn) = MaxDraws
  /\ Len(previews[1]) = 7
  /\ state.bag.preview = previews[Len(drawn) + 1]
  /\ previews[9] # previews[2]

\* the lines-clear events of a list of events, as indices
ClearEvents(evs) == { i \in 1..Len(evs) : evs[i].type = "lines-clear" }

\* C16: a lock that clears 4 rows at level 1 with combo count 0 and no
\* back-to-back active awards exactly 800 points in its lines-clear event
\* (the bonus of a perfect clear set aside: the board is not left empty).
C16_TetrisAwards800 ==
  ( /\ pc # "idle"
    /\ state.score.level = 1
    /\ state.combo.comboCount = 0
    /\ ~state.combo.backToBackActive
    /\ ~HasEvent(events, "perfect-clear") )
  => \A i \in ClearEvents(events) :
       Cardinality(events[i].event.lines) = 4 => events[i].event.points = 800

\* the tick has locked a piece
Locked(evs) == HasEvent(evs, "piece-lock")

\* C17: a lock that clears no lines resets comboCount to 0 and leaves
\* backToBackActive and the backToBack count as they were; backToBackActive
\* turns false only on a lock that clears lines with a single, double or
\* triple; a lines-clear event carries backToBack = TRUE exactly when its type
\* is difficult and back-to-back was active before the lock.
C17_ComboAndBackToBack ==
  pc # "idle" =>
    /\ (Locked(events) /\ ClearEvents(events) = {}) =>
         /\ newState.combo.comboCount = 0
         /\ newState.combo.backToBackActive = state.combo.backToBackActive
         /\ newState.combo.backToBack = state.combo.backToBack
    /\ (state.combo.backToBackActive /\ ~newState.combo.backToBackActive) =>
         \E i \in ClearEvents(events) :
           events[i].event.type \in {"single", "double", "triple"}
    /\ \A i \in ClearEvents(events) :
         events[i].event.backToBack
           <=> ( /\ events[i].event.type \in {"tetris", "t-spin-mini", "t-spin-single",
                                              "t-spin-double", "t-spin-triple"}
                 /\ state.combo.backToBackActive )

\* a lock without a clear ends a combo and keeps an active back-to-back
C17_Witness ==
  /\ pc = "return"
  /\ Locked(events)
  /\ ClearEvents(events) = {}
  /\ state.combo.comboCount = 1
  /\ state.combo.backToBackActive
  /\ newState.combo.comboCount = 0
  /\ newState.combo.backToBackActive

\* a double clear ends an active back-to-back
C17_WitnessEasyClear ==
  /\ pc = "return"
  /\ state.combo.backToBackActive
  /\ ~newState.combo.backToBackActive
  /\ \E i \in ClearEvents(events) : events[i].event.type = "double"

\* the level-up events of a list of events, in their order
RECURSIVE LevelUps(_)
LevelUps(evs) ==
  IF evs = << >> THEN << >>
  ELSE IF Head(evs).type = "level-up" THEN << Head(evs) >> \o LevelUps(Tail(evs))
  ELSE LevelUps(Tail(evs))

\* the lines a tick's lock has cleared
ClearedLines(evs) ==
  IF ClearEvents(evs) = {} THEN 0
  ELSE Cardinality(evs[CHOOSE i \in ClearEvents(evs) : TRUE].event.lines)

\* C18: a clearing lock raises the level once for each full linesPerLevel in
\* linesAtLevel plus the cleared lines, up to maxLevel, with one level-up
\* event per increment, each from previousLevel to previousLevel + 1; the
\* level never exceeds maxLevel.
C18_LevelUps ==
  /\ state.score.level <= MaxLevel
  /\ pc # "idle" =>
       /\ newState.score.level <= MaxLevel
       /\ newState.score.level =
            Min(MaxLevel,
                state.score.level
                  + (state.score.linesAtLevel + ClearedLines(events)) \div LinesPerLevel)
       /\ Len(LevelUps(events)) = newState.score.level - state.score.level
       /\ \A i \in 1..Len(LevelUps(events)) :
            /\ LevelUps(events)[i].previousLevel = state.score.level + i - 1
            /\ LevelUps(events)[i].newLevel = LevelUps(events)[i].previousLevel + 1

\* one lock gains two levels and stops at the highest level with lines to spare
C18_Witness ==
  /\ pc = "return"
  /\ ClearedLines(events) = 4
  /\ Len(LevelUps(events)) = 2
  /\ newState.score.level = MaxLevel
  /\ newState.score.linesAtLevel > 0

\* C19: streak.heatLevel stays within [0, 1] (in millionths) in every state,
\* between two ticks and at every step inside a tick.
C19_HeatInRange ==
  /\ state.streak.heatLevel >= 0
  /\ state.streak.heatLevel <= 1000000
  /\ pc # "idle" =>
       /\ newState.streak.heatLevel >= 0
       /\ newState.streak.heatLevel <= 1000000

\* a clear has brought the heat to its maximum, and an idle tick to zero
C19_Witness ==
  /\ pc = "return"
  /\ state.streak.heatLevel < 1000000
  /\ newState.streak.heatLevel = 1000000

C19_WitnessCold ==
  /\ pc = "return"
  /\ state.streak.heatLevel > 0
  /\ newState.streak.heatLevel = 0

\* a corner cell counts as filled when it is occupied or outside the board
Filled(b, c) == ~InBounds(c[1], c[2]) \/ c \in DOMAIN b

\* the protruding block of the T in a rotation, relative to the centre
Nub(rotation) == TETROMINO_SHAPES["T"][rotation + 1][4]

\* the two corners on the side of the protruding block
FacingCorners(piece) ==
  { c \in diagonalCells(piece.position) :
      \/ Nub(piece.rotation).x # 0 /\ c[1] - piece.position.x = Nub(piece.rotation).x
      \/ Nub(piece.rotation).y # 0 /\ c[2] - piece.position.y = Nub(piece.rotation).y }

\* C20: for a T piece with at least 3 of its 4 diagonal corners filled,
\* detectTSpin reports a T-spin that is full (isMini = FALSE) exactly when both
\* corners on the side the protruding block faces are filled, in each of the
\* four rotations, a wall kick of index 4 aside.
C20_FrontCornersDecideMini ==
  ( /\ pc = "detected"
    /\ Cardinality({ c \in diagonalCells(state.activePiece.position) :
                       Filled(state.board, c) }) >= 3
    /\ ~(newState.wasWallKick /\ newState.kickIndex = 4) )
  => /\ newState.tSpin.isTSpin
     /\ ~newState.tSpin.isMini
          <=> \A c \in FacingCorners(state.activePiece) : Filled(state.board, c)

\* the events of a tick in which a T was turned with the last offset of its
\* kick table (index 4) and locked where the turn left it: no move, no fall
\* and no other turn in between
KickedIntoLock(evs) ==
  /\ \E i \in 1..Len(evs) :
       /\ evs[i].type = "piece-rotate"
       /\ evs[i].wasWallKick
       /\ evs[i].kickIndex = 4
       /\ \A j \in (i + 1)..Len(evs) : evs[j].type # "piece-rotate"
  /\ ~HasEvent(evs, "piece-move")
  /\ ~HasEvent(evs, "soft-drop")
  /\ \A i \in 1..Len(evs) : evs[i].type = "hard-drop" => evs[i].cells = 0
  /\ \E i \in 1..Len(evs) : evs[i].type = "piece-lock" /\ evs[i].piece = "T"

\* C21: a T piece that reached the position where it locks by a rotation
\* that used the kick offset of index 4 is never classified as a mini T-spin:
\* the clear type of its lock is not 't-spin-mini', whatever its corners.
C21_KickFourNeverMini ==
  KickedIntoLock(events)
    => \A i \in ClearEvents(events) : events[i].event.type # "t-spin-mini"

\* the T pieces, as centre and rotation, whose blocks are the positions of a
\* piece-lock event
LockedAs(positions) ==
  { pr \in { P(x, y) : x \in 0..(BoardWidth - 1),
                       y \in 0..(BoardHeight + BufferRows - 1) } \X (0..3) :
      blocksAt(TETROMINO_SHAPES["T"][pr[2] + 1], pr[1]) = positions }

\* the corners of a centre that are filled on a board
FilledCorners(b, centre) == { c \in diagonalCells(centre) : Filled(b, c) }

\* C22: when a T piece locks with at least 3 of its 4 corners filled, both
\* front corners among them, and the lock clears 3 rows, the lines-clear event
\* has the type 't-spin-triple' (the detection is a T-spin that is not mini).
C22_TSpinTriple ==
  \A i \in 1..Len(events) :
    (events[i].type = "piece-lock" /\ events[i].piece = "T") =>
      \A pr \in LockedAs(events[i].positions) :
        ( /\ Cardinality(FilledCorners(state.board, pr[1])) >= 3
          /\ \A c \in FacingCorners([position |-> pr[1], rotation |-> pr[2]]) :
               Filled(state.board, c) )
        => \A j \in ClearEvents(events) :
             Cardinality(events[j].event.lines) = 3
               => events[j].event.type = "t-spin-triple"

\* a tick in which a T locked and cleared 3 rows
C22_Witness ==
  /\ pc = "return"
  /\ \E i \in 1..Len(events) : events[i].type = "piece-lock" /\ events[i].piece = "T"
  /\ \E j \in ClearEvents(events) : Cardinality(events[j].event.lines) = 3

\* a tick that requests the hard drop and nothing else
OnlyHardDrop == [NoActions EXCEPT !.hardDrop = TRUE]

\* the pre-tick state has a flat I piece (rotation 0) over an empty board
FlatIOverEmptyBoard ==
  /\ state.phase = "playing"
  /\ state.activePiece # Null
  /\ state.activePiece.type = "I"
  /\ state.activePiece.rotation = 0
  /\ DOMAIN state.board = {}

RowCount(b, y) == Cardinality({ x \in 0..(BoardWidth - 1) : <<x, y>> \in DOMAIN b })

\* C24: a tick's lock emits at most one lines-clear event; when it completes
\* exactly one row, which was full except for one column before the lock, the
\* event has the type 'single'; when it completes 4 rows at once, the event
\* has the type 'tetris'.
C24_SingleAndTetris ==
  /\ Cardinality(ClearEvents(events)) <= 1
  /\ \A j \in ClearEvents(events) :
       /\ ( /\ Cardinality(events[j].event.lines) = 1
            /\ \A y \in events[j].event.lines :
                 RowCount(state.board, y) = BoardWidth - 1 )
          => events[j].event.type = "single"
       /\ Cardinality(events[j].event.lines) = 4
          => events[j].event.type = "tetris"

\* the tick's lock is that of a T with at least 3 of its corners filled on
\* the board before the lock: what detectTSpin takes for a T-spin
TSpinLock ==
  \E i \in 1..Len(events) :
    /\ events[i].type = "piece-lock"
    /\ events[i].piece = "T"
    /\ \E pr \in LockedAs(events[i].positions) :
         Cardinality(FilledCorners(state.board, pr[1])) >= 3

\* the lines-clear event j is for one row that lacked one cell before the lock
CompletesOneRow(j) ==
  /\ Cardinality(events[j].event.lines) = 1
  /\ \A y \in events[j].event.lines : RowCount(state.board, y) = BoardWidth - 1

\* C24 (amended): a tick's lock emits at most one lines-clear event; when it
\* completes exactly one row, which was full except for one column, the type
\* is 'single', unless the piece is a T with at least 3 corners filled, when
\* it is 't-spin-single' or 't-spin-mini'; when it completes 4 rows at once
\* the type is 'tetris'.
C24_SingleUnlessTSpin ==
  /\ Cardinality(ClearEvents(events)) <= 1
  /\ \A j \in ClearEvents(events) :
       /\ (CompletesOneRow(j) /\ ~TSpinLock) => events[j].event.type = "single"
       /\ (CompletesOneRow(j) /\ TSpinLock)
            => events[j].event.type \in {"t-spin-single", "t-spin-mini"}
       /\ Cardinality(events[j].event.lines) = 4
            => events[j].event.type = "tetris"

\* a lock that completes one row and is no T-spin
C24_Witness ==
  /\ pc = "return"
  /\ \E j \in ClearEvents(events) : CompletesOneRow(j) /\ ~TSpinLock

\* a lock that completes 4 rows
C24_WitnessTetris ==
  /\ pc = "return"
  /\ \E j \in ClearEvents(events) : Cardinality(events[j].event.lines) = 4

\* a T with 3 corners filled that completes one row
C24_WitnessTSpin ==
  /\ pc = "return"
  /\ \E j \in ClearEvents(events) : CompletesOneRow(j) /\ TSpinLock

\* C25: for every piece type, rotation state and board on which the piece is
\* legally placed, a quarter turn (cw or ccw) followed at once by the turn
\* back, the turn back succeeding with the zero-offset kick, gives back the
\* original position and rotation.
C25_TurnBackRestores ==
  ( /\ pc = "turned"
    /\ newState.first.success
    /\ newState.back.success
    /\ newState.back.kickIndex = 0 )
  => /\ newState.back.newPiece.position = state.activePiece.position
     /\ newState.back.newPiece.rotation = state.activePiece.rotation

\* C25 (amended): a quarter turn and the turn back, both succeeding with the
\* zero-offset kick, give back the original position and rotation; after a
\* first turn that was kicked, a turn back with the zero offset leaves the
\* piece displaced by the offset of that kick.
C25_ZeroKicksRestore ==
  ( /\ pc = "turned"
    /\ newState.first.success
    /\ newState.back.success
    /\ newState.back.kickIndex = 0 )
  => /\ newState.back.newPiece.rotation = state.activePiece.rotation
     /\ newState.back.newPiece.position = newState.first.newPiece.position
     /\ newState.first.kickIndex = 0
          => newState.back.newPiece.position = state.activePiece.position

\* both turns succeeded with the zero offset
C25_Witness ==
  /\ pc = "turned"
  /\ newState.first.success
  /\ newState.first.kickIndex = 0
  /\ newState.back.success
  /\ newState.back.kickIndex = 0

\* the row of the lowest legal placement directly below the pre-tick piece
LandingRow == calculateGhostY(state.board, state.activePiece)

\* the points of the tick's lines-clear events
ClearPoints(evs) ==
  IF ClearEvents(evs) = {} THEN 0
  ELSE evs[CHOOSE j \in ClearEvents(evs) : TRUE].event.points

\* C26: a hard drop of a legally placed piece locks it in the same tick at
\* the lowest legal row directly below its position, and raises the score by
\* 2 * softDropMultiplier * (rows dropped) on top of the points of the lock's
\* line clear.
C26_HardDropLandsAndScores ==
  ( /\ pc = "return"
    /\ actions = OnlyHardDrop
    /\ state.phase = "playing"
    /\ state.activePiece # Null
    /\ isValidPiecePosition(state.board, state.activePiece) )
  => /\ \E i \in 1..Len(events) :
          /\ events[i].type = "piece-lock"
          /\ events[i].positions
               = getPieceBlocks([state.activePiece EXCEPT !.position.y = LandingRow])
     /\ newState.score.score
          = state.score.score
              + 2 * SoftDropMultiplier * (state.activePiece.position.y - LandingRow)
              + ClearPoints(events)

\* the rotation step runs on a piece for which every placement that
\* tryRotate tries for the requested direction is illegal
RotationRefused ==
  /\ pc = "rotate"
  /\ pc' = "move"
  /\ newState.activePiece # Null
  /\ Rotation(actions') # "none"
  /\ ~tryRotate(newState.board, newState.activePiece, Rotation(actions')).success

\* the move step runs on a piece whose neighbouring placement on the
\* requested side is illegal
MoveRefused ==
  /\ pc = "move"
  /\ pc' = "drop"
  /\ newState.activePiece # Null
  /\ actions'.moveLeft \/ actions'.moveRight
  /\ ~canPlacePiece(newState.board, newState.activePiece.type,
                    P(newState.activePiece.position.x
                        + (IF actions'.moveLeft THEN -1 ELSE 1),
                      newState.activePiece.position.y),
                    newState.activePiece.rotation)

\* C27: a horizontal move or a rotation whose target placement is illegal is
\* a no-op: the step leaves the active piece (position, rotation, ghost row,
\* lock-delay timer, reset counter) as it was and adds no event.
C27_RefusedStepIsNoOp ==
  [][ (RotationRefused \/ MoveRefused)
        => /\ newState'.activePiece = newState.activePiece
           /\ events' = events ]_vars

\* after the rotation step: a turn was requested for the piece and refused
C27_Witness ==
  /\ pc = "move"
  /\ Rotation(actions) # "none"
  /\ newState.activePiece # Null
  /\ ~HasEvent(events, "piece-rotate")

\* after the move step: a move was requested for the piece and refused
C27_WitnessMove ==
  /\ pc = "drop"
  /\ actions.moveLeft \/ actions.moveRight
  /\ newState.activePiece # Null
  /\ ~HasEvent(events, "piece-move")

\* the expiry loop of update, which calls the end callback of an active
\* event before it removes it, runs in this step and finds the event expired
ExpiryEnds(e) ==
  /\ enabled
  /\ state.phase = "playing"
  /\ now - e.startTime >= e.duration
  /\ enabled'

\* C28: a chaos event goes through warning, start and end in this order, and
\* every event whose start fired gets its end callback, also when the manager
\* is disabled or the round ends while the event is active: an event that
\* joined the active list at its start leaves the list only through the
\* expiry loop, where its end callback is called.
C28_StartedEventsEnd ==
  [][ \A i \in 1..Len(activeEvents) :
        (\A j \in 1..Len(activeEvents') : activeEvents'[j] # activeEvents[i])
          => ExpiryEnds(activeEvents[i]) ]_vars

\* a step in which update issues a warning: a deferred start is added
WarningFires == Len(timeouts') > Len(timeouts)

\* a step in which the start callback of an event is called
StartFires == lastStart' # lastStart

\* C29: enable() followed by disable() before the first cooldown has elapsed,
\* with any update() calls in between, fires no warning, start or end
\* callback and leaves the list of active events empty.  Until the shortest
\* cooldown has passed no warning is pending, no start was called and no
\* event is active; a warning is only issued by an update of the enabled
\* manager at which the cooldown has elapsed, a start only by the deferred
\* call a warning has set, and an event only joins the list at its start.
C29_NothingBeforeCooldown ==
  /\ [](now < EventCooldown
          => timeouts = << >> /\ lastStart = Null /\ activeEvents = << >>)
  /\ [][ /\ WarningFires
              => enabled /\ now - lastEventTime >= currentCooldown
         /\ StartFires => Len(timeouts') < Len(timeouts)
         /\ Len(activeEvents') > Len(activeEvents) => StartFires ]_vars

\* the manager was enabled after the construction and disabled again by the
\* start of a classic game, before the cooldown drawn at the enable elapsed
C29_Witness ==
  /\ ~enabled
  /\ session = 2
  /\ lastEventTime > 0
  /\ now - lastEventTime < EventCooldown
  /\ state.timing.gameTime > 0

\* C30: after a game over that set the name-entry timer, restart(),
\* returnToMenu() or startGameWithMode() before the 1500 ms have passed keep
\* the name-entry dialog from ever being shown for the finished game: every
\* dialog was shown in the session of its game-over with the game screen
\* still up, no dialog belongs to a timer that was cleared, and no timer
\* is left pending after one of the three calls.
C30_NoNameEntryAfterLeaving ==
  /\ \A shown \in nameEntryShown :
       /\ shown.game = shown.session
       /\ shown.appPhase = "playing"
       /\ \A timer \in nameEntryCleared : timer.game # shown.game
  /\ \A timer \in nameEntryTimers :
       timer.game = session /\ appPhase = "playing" /\ state.phase = "gameOver"

\* restart cleared the timer of the finished first game, and its 1500 ms
\* have passed in the second game
C30_Witness ==
  \E timer \in nameEntryCleared :
    /\ timer.game = 1
    /\ session = 2
    /\ appPhase = "playing"
    /\ ~countdown
    /\ timer.due <= now

\* returnToMenu cleared the timer, and its 1500 ms have passed at the menu
C30_WitnessMenu ==
  \E timer \in nameEntryCleared :
    timer.game = session /\ appPhase = "menu" /\ timer.due <= now

\* startGameWithMode is called with the timer pending
C30_WitnessStart ==
  \E timer \in nameEntryCleared :
    timer.game = 1 /\ session = 2 /\ countdown /\ timer.due <= now

\* the dialog of a finished game is shown when the player stays
C30_WitnessShown == \E shown \in nameEntryShown : shown.game = session

\* the piece active when the tick began was brought down by a soft drop in
\* an earlier tick and is locked in this one
SoftDroppedPieceLocks ==
  /\ pc = "return"
  /\ state.activePiece # Null
  /\ ~actions.hold
  /\ HasEvent(events, "piece-lock")
  /\ IF state.activePiece # Null THEN state.activePiece.softDropCells > 0 ELSE FALSE

\* C31: soft-dropping awards points: a tick in which the piece moves down at
\* least one cell while softDrop is held raises the score, by the time that
\* piece locks at the latest.  In a game begun at score 0, the score is
\* positive once a soft-dropped piece has locked.
C31_SoftDropScores == SoftDroppedPieceLocks => newState.score.score > 0

\* the kick offsets of a quarter turn of the piece
KicksOf(piece, direction) ==
  getWallKicks(piece.type)[
    getWallKickKey(piece.rotation, getNewRotation(piece.rotation, direction))]

\* the piece turned a quarter and moved by the offset of index i (1-based)
KickedTo(piece, direction, i) ==
  [piece EXCEPT
     !.position = P(piece.position.x + KicksOf(piece, direction)[i].x,
                    piece.position.y + KicksOf(piece, direction)[i].y),
     !.rotation = getNewRotation(piece.rotation, direction)]

\* the successful result for the offset of index i (1-based, i - 1 in the code)
KickAt(piece, direction, i) ==
  [success |-> TRUE, newPiece |-> KickedTo(piece, direction, i),
   wasWallKick |-> i - 1 > 0, kickIndex |-> i - 1]

\* the indices whose placement is legal
LegalKicks(b, piece, direction) ==
  { i \in 1..Len(KicksOf(piece, direction)) :
      canPlacePiece(b, piece.type, KickedTo(piece, direction, i).position,
                    KickedTo(piece, direction, i).rotation) }

\* the result for the lowest of the legal indices, failure when there is none
LowestOf(piece, direction, legal) ==
  IF legal = {} THEN RotationFailed
  ELSE KickAt(piece, direction, CHOOSE k \in legal : \A j \in legal : k <= j)

\* the quarter turn as the claim describes it: the lowest legal index wins
LowestKick(b, piece, direction) ==
  LowestOf(piece, direction, LegalKicks(b, piece, direction))

\* a second quarter turn the same way, when the first one succeeded
TurnAgain(b, first, direction) ==
  IF first.success THEN LowestKick(b, first.newPiece, direction) ELSE RotationFailed

\* two quarter turns the same way
TwoTurns(b, piece, direction) ==
  TurnAgain(b, LowestKick(b, piece, direction), direction)

\* the first of the three attempts of a half turn that succeeds
FirstOfThree(b, piece, cwTwice, ccwTwice) ==
  IF cwTwice.success THEN cwTwice
  ELSE IF ccwTwice.success THEN ccwTwice
  ELSE IF canPlacePiece(b, piece.type, piece.position, (piece.rotation + 2) % 4)
  THEN [success |-> TRUE,
        newPiece |-> [piece EXCEPT !.rotation = (piece.rotation + 2) % 4],
        wasWallKick |-> FALSE, kickIndex |-> 0]
  ELSE RotationFailed

\* the half turn as the claim describes it
HalfTurnInOrder(b, piece) ==
  FirstOfThree(b, piece, TwoTurns(b, piece, "cw"), TwoTurns(b, piece, "ccw"))

\* a result that is a legal placement a half turn from the piece
LegalHalfTurn(b, piece, result) ==
  result.success =>
    /\ result.newPiece.rotation = (piece.rotation + 2) % 4
    /\ canPlacePiece(b, piece.type, result.newPiece.position, result.newPiece.rotation)

\* C32: for a cw or ccw rotation tryRotate returns the placement of the
\* lowest-index kick offset that is legal, reports that index with
\* wasWallKick = (index > 0), and fails only when every offset fails; for a
\* 180 rotation it tries cw twice, then ccw twice, then the unkicked
\* placement, and every success is a legal placement in rotation state
\* (old + 2) mod 4.
C32_LowestKickWins ==
  pc = "rotated" =>
    IF newState.direction = "180"
    THEN /\ newState.result = HalfTurnInOrder(state.board, state.activePiece)
         /\ LegalHalfTurn(state.board, state.activePiece, newState.result)
    ELSE newState.result = LowestKick(state.board, state.activePiece, newState.direction)

\* a half turn that the clockwise pair cannot make and the counter-clockwise
\* pair can
C32_Witness ==
  /\ pc = "rotated"
  /\ newState.direction = "180"
  /\ newState.result.success
  /\ ~TwoTurns(state.board, state.activePiece, "cw").success
  /\ TwoTurns(state.board, state.activePiece, "ccw").success

\* a quarter turn placed by its last offset, the earlier ones being illegal
C32_WitnessKick ==
  /\ pc = "rotated"
  /\ newState.direction # "180"
  /\ newState.result.success
  /\ newState.result.kickIndex = 4

\* a quarter turn that fails
C32_WitnessFail ==
  /\ pc = "rotated"
  /\ newState.direction # "180"
  /\ ~newState.result.success

\* a half turn made by the unkicked placement only
C32_WitnessPlain ==
  /\ pc = "rotated"
  /\ newState.direction = "180"
  /\ newState.result.success
  /\ ~TwoTurns(state.board, state.activePiece, "cw").success
  /\ ~TwoTurns(state.board, state.activePiece, "ccw").success

\* C33: whenever a piece locks, the four cells it writes were all unoccupied
\* immediately before the lock, also when a chaos start callback applied
\* garbageRain or bonusClear to the board between two ticks while that piece
\* was active.  The board of a tick changes at the lock only, so the board
\* before the lock is the one the tick began with.
C33_LockCellsWereFree ==
  \A i \in 1..Len(events) :
    events[i].type = "piece-lock" =>
      \A k \in 1..Len(events[i].positions) :
        <<events[i].positions[k].x, events[i].positions[k].y>> \notin DOMAIN state.board

\* C34: if ticks keep arriving while the phase is playing, every active
\* piece is eventually locked or swapped out by a hold, whatever inputs the
\* player sends.
C34_PieceSettles == <>(pc = "settled")

TickLeavesNoFilledRow ==
  pc = "return" /\ getFilledRows(state.board) = {}
    => getFilledRows(newState.board) = {}

\* C36: in every state from createGameState onward, for every configured
\* startLevel, timing.gravitySpeed equals calculateGravity(score.level).
C36_GravityFollowsLevel ==
  /\ state.timing.gravitySpeed = calculateGravity(state.score.level)
  /\ newState # Null =>
       newState.timing.gravitySpeed = calculateGravity(newState.score.level)

\* the same for the games that were created with startLevel 1
GravityFollowsLevelFromOne ==
  state.timing.baseGravity = calculateGravity(1) /\ state.score.level = 1
    => C36_GravityFollowsLevel

\* a line clear brings the speed of the level after the shown one, which can
\* be slower than the speed the game started with
SpeedNeverDrops ==
  newState # Null => newState.timing.gravitySpeed >= state.timing.gravitySpeed

\* the rotation step of the tick has turned the piece, which rests on the
\* ground and had resets left
GroundedRotation ==
  /\ pc = "rotate"
  /\ HasEvent(events', "piece-rotate")
  /\ isOnGround(newState'.board, newState'.activePiece)
  /\ newState.activePiece.lockDelay.moveResets < newState.activePiece.lockDelay.maxResets

\* C37: a successful rotation of a grounded piece that still has resets left
\* restores the lock-delay timer to the configured lock delay
\* (config.lockDelay) and increments moveResets by 1, as a successful
\* horizontal move does.
C37_RotationRestoresLockDelay ==
  [][ GroundedRotation =>
        /\ newState'.activePiece.lockDelay.remaining = LockDelay
        /\ newState'.activePiece.lockDelay.moveResets =
             newState.activePiece.lockDelay.moveResets + 1 ]_vars

\* the move step does so
MoveRestoresLockDelay ==
  [][ ( /\ pc = "move"
        /\ Len(events') > Len(events)
        /\ isOnGround(newState'.board, newState'.activePiece)
        /\ newState.activePiece.lockDelay.moveResets
             < newState.activePiece.lockDelay.maxResets )
      => /\ newState'.activePiece.lockDelay.remaining = LockDelay
         /\ newState'.activePiece.lockDelay.moveResets =
              newState.activePiece.lockDelay.moveResets + 1 ]_vars

\* the rotation counts the reset and restores the timer to the default of
\* the parameter
RotationRestoresDefault ==
  [][ GroundedRotation =>
        /\ newState'.activePiece.lockDelay.remaining = DefaultLockDelay
        /\ newState'.activePiece.lockDelay.moveResets =
             newState.activePiece.lockDelay.moveResets + 1 ]_vars

\* the piece a hold of s would bring in: the stored piece, or the next bag
\* piece when nothing is stored
IncomingType(s) ==
  IF s.hold.piece # NoType THEN s.hold.piece ELSE Head(s.bag.current)

\* a hold request that processHold takes up, with an incoming piece that
\* cannot be placed at the spawn position
BlockedHold(s, a) ==
  /\ a.hold
  /\ s.activePiece # Null
  /\ s.hold.available
  /\ ~canPlacePiece(s.board, IncomingType(s), spawnPosition, 0)

\* C38: a hold request whose incoming piece cannot be placed at the spawn
\* position leaves the active piece, the hold slot, hold.available and the
\* bag unchanged, emits no piece-hold event, and does not end the game.
C38_BlockedHoldChangesNothing ==
  [][ (pc = "hold" /\ BlockedHold(newState, actions'))
        => /\ newState'.activePiece = newState.activePiece
           /\ newState'.hold = newState.hold
           /\ newState'.bag = newState.bag
           /\ newState'.phase = newState.phase
           /\ ~HasEvent(events', "piece-hold")
           /\ ~HasEvent(events', "game-over") ]_vars

\* the hold step has run on such a request, with a piece stored
C38_Witness ==
  /\ pc = "rotate"
  /\ BlockedHold(state, actions)
  /\ state.hold.piece # NoType

\* the same with nothing stored
C38_WitnessBag ==
  /\ pc = "rotate"
  /\ BlockedHold(state, actions)
  /\ state.hold.piece = NoType

\* C39: updateGame called with a phase other than playing returns the state
\* unchanged and an empty event list; after the tick that emitted game-over
\* no further event, in particular no second game-over, is produced until the
\* state is reset by a restart or a new game.
C39_SilentWhenNotPlaying ==
  /\ [](pc = "return" /\ state.phase # "playing"
          => newState = state /\ events = << >>)
  /\ [](state.phase = "gameOver" => events = << >>)
  /\ [][state.phase = "gameOver" /\ state'.phase # "gameOver"
          => session' = session + 1]_vars

\* updateGame has returned from a call on a game that is over
C39_Witness ==
  /\ pc = "return"
  /\ state.phase = "gameOver"
  /\ newState = state

\* a paused game that was ticked
C39_WitnessPaused ==
  /\ pc = "return"
  /\ state.phase = "paused"

\* the game after a restart is over as well
C39_WitnessRestart ==
  /\ session = 2
  /\ state.phase = "gameOver"

\* the 1-based position of the entry in the list
PositionOf(entries, entry) ==
  CHOOSE i \in 1..Len(entries) : entries[i] = entry

\* the list is sorted by score descending and holds at most the maximum
SortedAndCapped(entries) ==
  /\ Len(entries) <= MaxEntriesPerMode
  /\ \A i \in 1..(Len(entries) - 1) : entries[i].score >= entries[i + 1].score

\* C40: after a qualifying score is added with addEntry, the rank getRank
\* reports for that score, called after the add, equals the entry's 1-based
\* position in the list, which is sorted by score descending and holds at
\* most the maximum number of entries.
C40_RankIsPosition ==
  (pc = "submitted" /\ newState.added)
    => /\ SortedAndCapped(newState.entries)
       /\ newState.rank = PositionOf(newState.entries, newState.entry)

\* the list is sorted and capped, the added entry is in it, and getRank
\* called before the add gives its position
RankBeforeIsPosition ==
  (pc = "submitted" /\ newState.added)
    => /\ SortedAndCapped(newState.entries)
       /\ \E i \in 1..Len(newState.entries) : newState.entries[i] = newState.entry
       /\ newState.rankBefore = PositionOf(newState.entries, newState.entry)

\* called after the add, getRank gives a later position or -1
RankAfterIsLater ==
  (pc = "submitted" /\ newState.added)
    => \/ newState.rank = -1
       \/ newState.rank > PositionOf(newState.entries, newState.entry)

====
